---- MODULE Spec2Model ----
(***************************************************************************)
(* A model of the intent-routing graph of ChallangeAgentsAi: the Router    *)
(* (planner_node), the four handlers, the Memory Sink, the /chat caller,   *)
(* and the SQL guard with its execution adapter.                           *)
(*                                                                         *)
(* Text is modelled at the level of words.  A message content is a         *)
(* sequence of items: words of a fixed vocabulary (kept in their original  *)
(* casing, adjacent words separated by one space) and the item WS, a run   *)
(* of whitespace that only occurs at the two ends of a content.            *)
(***************************************************************************)
EXTENDS Integers, Sequences, FiniteSets, TLC

None == "None"

(***************************************************************************)
(* Bounds of the model.                                                    *)
(***************************************************************************)
\* longest user message, in words
MaxWords == 2
\* length in characters of the filler word Pad (Pad2 is two longer)
PadLen == 493

(***************************************************************************)
(* Program constants.                                                      *)
(***************************************************************************)
\* planner_node: query = content.strip()[:500]
QueryCut == 500
\* memory_node: messages[-20:]
MemoryWindow == 20

----------------------------------------------------------------------------
(***************************************************************************)
(* Words and their characters.                                             *)
(***************************************************************************)
WS == " "
Pad == "xx..x"
Pad2 == "xx..xxx"
\* what is left of a word the 500-character cut falls into, when that
\* prefix is no word of the vocabulary
Frag == "~"

Words ==
  { "Oi", "Hi", "thanks", "thank you", "qual seu nome", "who are you",
    "what can you do", "como você funciona", "CLIMA", "console",
    "em", "Paris", "produtos", "thanksgiving", Pad, Pad2 }

\* len(w)
WordLen(w) ==
  CASE w = Pad -> PadLen
    [] w = Pad2 -> PadLen + 2
    [] w \in {WS, Frag} -> 1
    [] w \in {"Oi", "Hi", "em", "oi", "hi", "at"} -> 2
    [] w \in {"hoje", "Como"} -> 4
    [] w \in {"Paris", "CLIMA", "paris", "clima", "Clima"} -> 5
    [] w \in {"France", "Paris,", "clima?"} -> 6
    [] w = "LondrinaPR" -> 10
    [] w = "Londrina/PR" -> 11
    [] w \in {"thanks", "consol"} -> 6
    [] w = "console" -> 7
    [] w = "produtos" -> 8
    [] w = "thank you" -> 9
    [] w = "who are you" -> 11
    [] w = "thanksgiving" -> 12
    [] w = "qual seu nome" -> 13
    [] w = "what can you do" -> 15
    [] w = "como você funciona" -> 18
    [] OTHER -> 3

\* str.lower() on one word
LowerWord(w) ==
  CASE w = "Oi" -> "oi"
    [] w = "Hi" -> "hi"
    [] w = "CLIMA" -> "clima"
    [] w = "Paris" -> "paris"
    [] OTHER -> w

\* w[:k] for 0 < k < len(w).  Two proper prefixes of vocabulary words match
\* something: "thanks" of "thanksgiving" and "consol" of "console".
PrefixWord(w, k) ==
  CASE w = "thanksgiving" /\ k = 6 -> "thanks"
    [] w = "console" /\ k = 6 -> "consol"
    [] OTHER -> Frag

\* str.lower()
Lower(q) == [i \in 1..Len(q) |-> LowerWord(q[i])]

\* str.strip(): the whitespace at the two ends goes
RECURSIVE LStrip(_)
LStrip(q) == IF q # <<>> /\ Head(q) = WS THEN LStrip(Tail(q)) ELSE q

RECURSIVE RStrip(_)
RStrip(q) ==
  IF q # <<>> /\ q[Len(q)] = WS THEN RStrip(SubSeq(q, 1, Len(q) - 1)) ELSE q

Strip(q) == RStrip(LStrip(q))

\* s[:n] on a stripped text: a word is kept while it fits, the word the cut
\* falls into is replaced by its prefix, and the space between two words
\* takes one character
RECURSIVE CutTo(_, _)
CutTo(q, n) ==
  IF q = <<>> \/ n <= 0 THEN <<>>
  ELSE IF WordLen(Head(q)) <= n
       THEN <<Head(q)>> \o CutTo(Tail(q), n - WordLen(Head(q)) - 1)
       ELSE <<PrefixWord(Head(q), n)>>

\* Python truthiness of a message content: None and "" are falsy
Truthy(content) == content # None /\ content # <<>>

\* the strings a user can send: up to MaxWords words, possibly with
\* whitespace around them, and the whitespace-only string
RECURSIVE WordSeqs(_)
WordSeqs(n) ==
  IF n = 0 THEN {<<>>}
  ELSE WordSeqs(n - 1) \cup
       {Append(s, w) : s \in {t \in WordSeqs(n - 1) : Len(t) = n - 1}, w \in Words}

Contents ==
  WordSeqs(MaxWords) \cup {<<WS>>}
    \cup {<<WS>> \o s \o <<WS>> : s \in {t \in WordSeqs(MaxWords) : Len(t) = 1}}

----------------------------------------------------------------------------
(***************************************************************************)
(* graph/persona.py                                                        *)
(***************************************************************************)
\* variant: the name is spelled out in the replies instead of read from here
AI_IDENTITY_unnamed ==
  [name |-> "seu assistente", role |-> "assistente de IA especializado"]

AI_IDENTITY ==
  [name |-> "Atlas", role |-> "assistente de IA especializado"]

\* The regular expressions of each pattern type, as the lowercased phrases
\* they match: any = anywhere between word boundaries, start = only at the
\* start of the query (^...\b), whole = only as the whole query (^...$).
CONVERSATION_PATTERNS ==
  [ name_pt |->
      [any |-> {"qual seu nome", "qual o seu nome", "como você se chama",
                "diz seu nome", "quem é você"},
       start |-> {}, whole |-> {}],
    name_en |->
      [any |-> {"what's your name", "what is your name", "who are you",
                "tell me your name"},
       start |-> {}, whole |-> {}],
    greeting_pt |->
      [any |-> {"bom dia", "boa tarde", "boa noite"},
       start |-> {"oi", "olá", "ola", "e aí", "e ai", "eae"},
       whole |-> {}],
    greeting_en |->
      [any |-> {"good morning", "good afternoon", "good evening", "good day"},
       start |-> {},
       whole |-> {"hi", "hello", "hey", "howdy"}],
    capabilities_pt |->
      [any |-> {"o que você pode fazer", "quais são suas funcionalidades",
                "como você funciona", "como você trabalha"},
       start |-> {}, whole |-> {}],
    capabilities_en |->
      [any |-> {"what can you do", "what are your capabilities",
                "what are your features", "how do you work"},
       start |-> {}, whole |-> {}],
    thanks_pt |->
      [any |-> {"obrigado", "obrigada", "valeu", "thanks", "brigado", "brigada"},
       start |-> {}, whole |-> {}],
    thanks_en |->
      [any |-> {"thank you", "thanks", "thx"},
       start |-> {}, whole |-> {}] ]

\* the iteration order of the CONVERSATION_PATTERNS dict
PatternOrder ==
  << "name_pt", "name_en", "greeting_pt", "greeting_en",
     "capabilities_pt", "capabilities_en", "thanks_pt", "thanks_en" >>

PatternTypes == {PatternOrder[i] : i \in 1..Len(PatternOrder)}

\* re.search(pattern, query_lower) for some pattern of the type
PatternMatches(t, q) ==
  LET P == CONVERSATION_PATTERNS[t] IN
    \/ \E i \in 1..Len(q) : q[i] \in P.any
    \/ Len(q) >= 1 /\ q[1] \in P.start
    \/ Len(q) = 1 /\ q[1] \in P.whole

detect_conversation_type(query) ==
  LET q == Strip(Lower(query))
      hits == {i \in 1..Len(PatternOrder) : PatternMatches(PatternOrder[i], q)}
  IN IF hits = {} THEN None
     ELSE PatternOrder[CHOOSE i \in hits : \A j \in hits : i <= j]

\* pattern_type.startswith(p), pattern_type.endswith("_pt")
TagPrefix(t) ==
  CASE t \in {"name_pt", "name_en"} -> "name"
    [] t \in {"greeting_pt", "greeting_en"} -> "greeting"
    [] t \in {"capabilities_pt", "capabilities_en"} -> "capabilities"
    [] t \in {"thanks_pt", "thanks_en"} -> "thanks"
    [] OTHER -> "other"

IsPortuguese(t) == t \in {"name_pt", "greeting_pt", "capabilities_pt", "thanks_pt"}

\* A reply is the sequence of the pieces its f-string is built from.
get_conversational_response(pattern_type, user_query) ==
  LET pt == IsPortuguese(pattern_type)
      pre == TagPrefix(pattern_type)
  IN CASE pre = "name" ->
            IF pt THEN <<"Meu nome é ", AI_IDENTITY.name, "! Sou um ",
                         AI_IDENTITY.role, " e estou aqui para ajudar">>
            ELSE <<"My name is ", AI_IDENTITY.name, "! I'm an ",
                   AI_IDENTITY.role, " and I'm here to help">>
       [] pre = "greeting" ->
            IF pt THEN <<"Olá! Eu sou ", AI_IDENTITY.name, ", seu assistente de IA.">>
            ELSE <<"Hello! I'm ", AI_IDENTITY.name, ", your AI assistant.">>
       [] pre = "capabilities" ->
            IF pt THEN <<"Sou ", AI_IDENTITY.name, ", e posso ajudar você a:">>
            ELSE <<"I'm ", AI_IDENTITY.name, ", and I can help you:">>
       [] pre = "thanks" ->
            IF pt THEN <<"De nada! Estou aqui sempre que precisar.">>
            ELSE <<"You're welcome! I'm here whenever you need.">>
       [] OTHER ->
            IF pt THEN <<"Olá! Sou ", AI_IDENTITY.name, ". Como posso ajudar você hoje?">>
            ELSE <<"Hello! I'm ", AI_IDENTITY.name, ". How can I help you today?">>

\* `needle in text` for a text given by its pieces
HasPiece(text, needle) == \E i \in 1..Len(text) : text[i] = needle

----------------------------------------------------------------------------
(***************************************************************************)
(* The state: the GraphState of one conversation id as the checkpointer    *)
(* keeps it, the position of the running turn in the graph, the /chat      *)
(* caller's result, and what an observer of the turn records.              *)
(***************************************************************************)
VARIABLES
  messages,          \* GraphState.messages: records [role, content, turn]
  need_web_fallback, \* GraphState flags: "None", "True" or "False"
  is_conversational,
  is_weather_query,
  context,           \* GraphState.context
  pc,                \* the node about to run, or idle / end / raised
  turn,              \* number of turns started on this conversation id
  trace,             \* the nodes that ran in this turn, in order
  decision,          \* which check of the Router decided, and its model call
  llm,               \* [built, invoked]: _get_llm() calls and invokes this turn
  deps,              \* what the handler's adapters did in this turn
  raised,            \* the exception that left the graph in this turn
  response,          \* what /chat returned for the turn
  adapter,           \* what the handler's adapter answered in this turn
  sql,               \* the SQL tool: its query, verdict, result and database
  wx,                \* the weather lookup: its requests, waits and result
  mm,                \* the daily min/max of a forecast series
  cx,                \* the city extractor on a query: its result
  cw                 \* the content sanitizer on a text: its output

graphVars ==
  << messages, need_web_fallback, is_conversational, is_weather_query,
     context, pc, turn, trace, decision, llm, deps, raised, response,
     adapter >>

\* the tools that run apart from a turn of the graph
tools == << sql, wx, mm, cx, cw >>

vars == << graphVars, tools >>

flags == << need_web_fallback, is_conversational, is_weather_query >>

\* Python truthiness of an Optional[bool] flag
IsTrue(flag) == flag = "True"
PyBool(b) == IF b THEN "True" ELSE "False"

\* a message; id 0 is a message the graph has not merged yet (id None)
Msg(role, content, t) == [role |-> role, content |-> content, turn |-> t, id |-> 0]

NoMessage == Msg("none", <<>>, 0)

\* next((m for m in reversed(messages) if isinstance(m, HumanMessage)), None)
LastHuman(msgs) ==
  LET hs == {i \in 1..Len(msgs) : msgs[i].role = "human"}
  IN IF hs = {} THEN NoMessage
     ELSE msgs[CHOOSE i \in hs : \A j \in hs : j <= i]

\* (getattr(last, "content", None) or "").strip() if last else ""
LastQuery(msgs) == Strip(LastHuman(msgs).content)

NoDecision == [by |-> "none", called |-> FALSE, ok |-> FALSE, text |-> ""]
NoLlm == [built |-> 0, invoked |-> 0]
NoDeps == [search |-> 0, weather |-> 0, agent |-> 0]
NoAdapter == [kind |-> "none"]

----------------------------------------------------------------------------
(***************************************************************************)
(* The language model, as the nodes see it: invoke() raises or returns a   *)
(* message with a content.                                                 *)
(***************************************************************************)
\* what the model may answer the Router
RouterReplies ==
  {"EXECUTE", "WEB_FALLBACK", "web_fallback", "Fallback.", "execute", ""}

LlmFailures == {"rate_limit", "error"}

\* the model's synthesis: a content, possibly empty, possibly citing "[1]"
SynthesisReplies == {"", "Resposta.", "Resposta [1]."}

\* str.upper() on a model reply
UpperText(s) ==
  CASE s = "web_fallback" -> "WEB_FALLBACK"
    [] s = "Fallback." -> "FALLBACK."
    [] s = "execute" -> "EXECUTE"
    [] OTHER -> s

\* `needle in s` for the two needles of the Router
TextContains(s, needle) ==
  CASE needle = "WEB_FALLBACK" -> s = "WEB_FALLBACK"
    [] needle = "FALLBACK" -> s \in {"WEB_FALLBACK", "FALLBACK."}
    [] OTHER -> s = needle

----------------------------------------------------------------------------
(***************************************************************************)
(* graph/nodes.py: planner_node (the Router)                               *)
(***************************************************************************)
weather_keywords ==
  << "clima", "weather", "temperatura", "temperature", "tempo", "forecast",
     "previsão", "chuva", "rain", "frio", "quente", "hot", "cold", "sol", "sun",
     "nublado", "cloudy", "vento", "wind", "°c", "celsius", "fahrenheit" >>

\* `keyword in w` for a lowercased word w: a keyword is in itself, and
\* "sol" is in "console" and in "consol"
WordContains(w, keyword) ==
  w = keyword \/ (w \in {"console", "consol"} /\ keyword = "sol")

\* any(keyword in query_lower for keyword in weather_keywords)
HasWeatherKeyword(query) ==
  LET query_lower == Lower(query) IN
    \E k \in 1..Len(weather_keywords) :
      \E i \in 1..Len(query_lower) : WordContains(query_lower[i], weather_keywords[k])

\* query = (last.content or "").strip()[:500]
RouterQuery(msgs) == CutTo(Strip(LastHuman(msgs).content), QueryCut)

\* if not last or not getattr(last, "content", None)
RouterSeesNothing(msgs) ==
  LastHuman(msgs) = NoMessage \/ ~Truthy(LastHuman(msgs).content)

\* need_fallback = "WEB_FALLBACK" in text or "FALLBACK" in text
NeedFallback(content) ==
  LET text == UpperText(content) IN
    TextContains(text, "WEB_FALLBACK") \/ TextContains(text, "FALLBACK")

\* variant: the weather keywords are looked for before the patterns
planner_checks_keyword_first(query) ==
  IF HasWeatherKeyword(query) THEN "keyword"
  ELSE IF detect_conversation_type(query) # None THEN "pattern"
  ELSE "model"

\* the check that decides, in the order of the code: the conversational
\* patterns, the weather keywords, and only then the model
planner_checks(query) ==
  IF detect_conversation_type(query) # None THEN "pattern"
  ELSE IF HasWeatherKeyword(query) THEN "keyword"
  ELSE "model"

\* variant: a failed classification call leaves need_fallback False
classification_fails_open(ok, content) ==
  IF ok THEN NeedFallback(content) ELSE FALSE

\* try: need_fallback from the reply; except Exception: need_fallback = True
classification(ok, content) ==
  IF ok THEN NeedFallback(content) ELSE TRUE

\* graph/graph.py: route_after_planner
route_after_planner(conv, weather, fallback) ==
  IF IsTrue(conv) THEN "conversation"
  ELSE IF IsTrue(weather) THEN "weather"
  ELSE IF IsTrue(fallback) THEN "fallback_search"
  ELSE "executor"

\* variant: the planner returns only the flag of the route it decides
PlannerReturnsOneFlag(fallback, conv, weather) ==
  /\ need_web_fallback' = IF conv \/ weather THEN need_web_fallback ELSE PyBool(fallback)
  /\ is_conversational' = IF conv THEN PyBool(TRUE) ELSE is_conversational
  /\ is_weather_query' = IF weather THEN PyBool(TRUE) ELSE is_weather_query
  /\ pc' = route_after_planner(is_conversational', is_weather_query', need_web_fallback')

\* the planner's return value merged into the state, then the conditional edge
PlannerReturns(fallback, conv, weather) ==
  /\ need_web_fallback' = PyBool(fallback)
  /\ is_conversational' = PyBool(conv)
  /\ is_weather_query' = PyBool(weather)
  /\ pc' = route_after_planner(PyBool(conv), PyBool(weather), PyBool(fallback))

PlannerNode ==
  /\ pc = "planner"
  /\ trace' = Append(trace, "planner")
  /\ IF RouterSeesNothing(messages)
     THEN /\ PlannerReturns(TRUE, FALSE, FALSE)
          /\ decision' = [NoDecision EXCEPT !.by = "empty"]
          /\ llm' = llm
     ELSE LET by == planner_checks(RouterQuery(messages)) IN
       IF by = "pattern"
       THEN /\ PlannerReturns(FALSE, TRUE, FALSE)
            /\ decision' = [NoDecision EXCEPT !.by = by]
            /\ llm' = llm
       ELSE IF by = "keyword"
       THEN /\ PlannerReturns(FALSE, FALSE, TRUE)
            /\ decision' = [NoDecision EXCEPT !.by = by]
            /\ llm' = llm
       ELSE /\ llm' = [built |-> llm.built + 1, invoked |-> llm.invoked + 1]
            /\ \/ \E content \in RouterReplies :
                    /\ PlannerReturns(classification(TRUE, content), FALSE, FALSE)
                    /\ decision' = [by |-> by, called |-> TRUE, ok |-> TRUE,
                                    text |-> content]
               \/ \E e \in LlmFailures :
                    /\ PlannerReturns(classification(FALSE, e), FALSE, FALSE)
                    /\ decision' = [by |-> by, called |-> TRUE, ok |-> FALSE,
                                    text |-> e]
  /\ UNCHANGED << messages, context, turn, deps, raised, response, adapter, tools >>

----------------------------------------------------------------------------
(***************************************************************************)
(* The graph's merge of a node's return value.                             *)
(***************************************************************************)
\* graph/state.py: the add_messages reducer.  A message without an id gets
\* one and is appended; a message whose id the state already holds replaces
\* that message in place.
RECURSIVE add_messages(_, _)
add_messages(msgs, new) ==
  IF new = <<>> THEN msgs
  ELSE LET m == Head(new) IN
    IF m.id # 0 /\ \E i \in 1..Len(msgs) : msgs[i].id = m.id
    THEN add_messages([i \in 1..Len(msgs) |-> IF msgs[i].id = m.id THEN m ELSE msgs[i]],
                      Tail(new))
    ELSE add_messages(Append(msgs, [m EXCEPT !.id = Len(msgs) + 1]), Tail(new))

AI(content) == Msg("ai", content, turn)

\* a handler returned {"messages": new}: merge, then the edge to memory
HandlerReturns(node, new) ==
  /\ messages' = add_messages(messages, new)
  /\ trace' = Append(trace, node)
  /\ pc' = "memory"
  /\ raised' = raised

\* a handler raised: the exception leaves graph.stream, no edge is taken
HandlerRaises(node, e) ==
  /\ messages' = messages
  /\ trace' = Append(trace, node)
  /\ pc' = "raised"
  /\ raised' = e

(***************************************************************************)
(* graph/nodes.py: conversation_node                                       *)
(***************************************************************************)
ConversationNode ==
  /\ pc = "conversation"
  /\ LET query == LastQuery(messages)
         conversation_type == detect_conversation_type(query)
     IN IF conversation_type = None
        \* get_conversational_response(None, ...): None has no endswith
        THEN HandlerRaises("conversation", "error")
        ELSE HandlerReturns("conversation",
               << AI(get_conversational_response(conversation_type, query)) >>)
  /\ UNCHANGED << flags, context, turn, decision, llm, deps, response, adapter,
                  tools >>

(***************************************************************************)
(* graph/nodes.py: _extract_city, weather_node; tools/weather_api.py:      *)
(* get_weather_impl as the node sees it                                    *)
(***************************************************************************)
Prepositions == {"em", "in", "de", "for", "para"}

\* The words of a query that hold punctuation: a city with its country
\* after a slash, a city before a comma, a word before a question mark.
\* name: the letters the word starts with; trail: what follows them;
\* country: the letters after the slash; clean: re.sub(r'[?.!,/]', '', w)
WordParts(w) ==
  CASE w = "Londrina/PR" ->
         [name |-> "Londrina", trail |-> "/", country |-> "PR", clean |-> "LondrinaPR"]
    [] w = "Paris," ->
         [name |-> "Paris", trail |-> ",", country |-> None, clean |-> "Paris"]
    [] w = "clima?" ->
         [name |-> "clima", trail |-> "?", country |-> None, clean |-> "clima"]
    [] OTHER -> [name |-> w, trail |-> "", country |-> None, clean |-> w]

\* [A-Z][a-z]+ : the word starts with a capital letter, then a lowercase one
Capitalized(w) ==
  w \in {"Paris", "Oi", "Hi", "Londrina/PR", "Paris,", "France", "Como", "Clima"}

\* clean[0].isupper()
StartsUpper(w) ==
  w \in {"Paris", "Oi", "Hi", "CLIMA", "LondrinaPR", "France", "Como", "Clima"}

SkipWords ==
  { "Como", "Qual", "What", "How", "The", "Uma", "Está", "Sera", "Vai",
    "Will", "Does", "Can", "Que", "Por", "Não", "Para", "Hoje", "Amanhã",
    "Clima", "Weather", "Tempo", "Temperature", "Temperatura", "Previsão" }

RECURSIVE Candidates(_)
Candidates(q) ==
  IF q = <<>> THEN <<>>
  ELSE (IF /\ StartsUpper(WordParts(Head(q)).clean)
           /\ WordParts(Head(q)).clean \notin SkipWords
           /\ WordLen(WordParts(Head(q)).clean) > 2
        THEN <<WordParts(Head(q)).clean>> ELSE <<>>) \o Candidates(Tail(q))

\* where the match that starts at word i ends: it runs on over the words
\* that follow, whatever their case, up to a word that holds punctuation
RECURSIVE MatchEnd(_, _)
MatchEnd(q, i) ==
  IF i = Len(q) \/ WordParts(q[i]).trail # "" THEN i ELSE MatchEnd(q, i + 1)

Names(q, i, j) == [k \in 1..(j - i + 1) |-> WordParts(q[i + k - 1]).name]

NoCity == [city |-> <<>>, country |-> None]

\* The city as the words it is made of, <<>> for None, and the country.
\* Tier 1: the leftmost of the given prepositions that a capitalized word
\* follows; the match ends with a "/Country" or ", Country" suffix if it
\* meets one, and is split there.  Tier 2: the words that, punctuation
\* dropped, start with a capital, are no stop words and are longer than 2.
ExtractWith(prepositions, query) ==
  LET q == Strip(query)
      at == {i \in 1..(Len(q) - 1) : q[i] \in prepositions /\ Capitalized(q[i + 1])}
  IN IF at # {}
     THEN LET i == (CHOOSE k \in at : \A j \in at : k <= j) + 1
              j == MatchEnd(q, i)
          IN IF WordParts(q[j]).trail = "/"
             THEN [city |-> Names(q, i, j), country |-> WordParts(q[j]).country]
             ELSE IF WordParts(q[j]).trail = "," /\ j < Len(q)
             THEN [city |-> Names(q, i, j), country |-> WordParts(q[j + 1]).name]
             ELSE [city |-> Names(q, i, j), country |-> None]
     ELSE [city |-> Candidates(q), country |-> None]

_extract_city(query) == ExtractWith(Prepositions, query)

\* the weather service's numbers, as JSON gives them: a number (in
\* hundredths of a degree, or in seconds), an absent key, null, or text
Num(x) == [k |-> "num", v |-> x]
Absent == [k |-> "absent", v |-> 0]
Null == [k |-> "null", v |-> 0]
Text == [k |-> "text", v |-> 0]

\* seconds of a day
Day == 86400
\* datetime.now(timezone.utc).timestamp(): noon of day 1
Now == Day + 43200

\* re.sub(r"[^\w\s\-]", "", text.strip())[:100], stripped
Punct == "?!"
SanitizeCut == 100

RECURSIVE DropPunct(_)
DropPunct(q) ==
  IF q = <<>> THEN <<>>
  ELSE (IF Head(q) = Punct THEN <<>> ELSE <<Head(q)>>) \o DropPunct(Tail(q))

_sanitize_location(text) ==
  IF text = <<>> THEN <<>>
  ELSE Strip(CutTo(LStrip(DropPunct(Strip(text))), SanitizeCut))

\* variant: the entry's date is taken in UTC
LocalDate_utc(ts, tz_offset) == ts \div Day

\* the calendar date of dt_utc + tz_offset, as a day number
LocalDate(ts, tz_offset) == (ts + tz_offset) \div Day

\* round(x, 1) of hundredths, in tenths
Round1(x) == (x + 5) \div 10

\* main.get(key, main.get("temp")): None for an absent reading
Reading(entry, key) ==
  IF entry[key].k = "absent" THEN entry.temp ELSE entry[key]

\* the loop of _get_daily_minmax: the readings of the entries of the date
RECURSIVE Collected(_, _, _)
Collected(forecasts, tz_offset, target_date) ==
  IF forecasts = <<>> THEN <<>>
  ELSE LET entry == Head(forecasts)
           dt_utc == IF entry.dt.k = "absent" THEN 0 ELSE entry.dt.v
       IN (IF LocalDate(dt_utc, tz_offset) = target_date /\ entry.main = "present"
           THEN << Reading(entry, "temp_min"), Reading(entry, "temp_max") >>
           ELSE <<>>)
            \o Collected(Tail(forecasts), tz_offset, target_date)

\* what makes the loop, min() or round() raise: a timestamp that is no
\* number (dt_utc + tz_offset), a null temperature block on the date
\* (None.get), a reading on the date that is no number
MinMaxRaises(forecasts, tz_offset, target_date) ==
  \/ \E i \in 1..Len(forecasts) : forecasts[i].dt.k \in {"null", "text"}
  \/ \E i \in 1..Len(forecasts) :
       /\ LocalDate(IF forecasts[i].dt.k = "absent" THEN 0 ELSE forecasts[i].dt.v,
                    tz_offset) = target_date
       /\ \/ forecasts[i].main = "null"
          \/ /\ forecasts[i].main = "present"
             /\ \E key \in {"temp_min", "temp_max"} : Reading(forecasts[i], key).k = "text"

SeqMin(s) == CHOOSE x \in {s[i] : i \in 1..Len(s)} : \A j \in 1..Len(s) : x <= s[j]
SeqMax(s) == CHOOSE x \in {s[i] : i \in 1..Len(s)} : \A j \in 1..Len(s) : x >= s[j]

NoMinMax == [raised |-> FALSE, temp_min |-> Null, temp_max |-> Null]

\* _get_daily_minmax(forecast_data, target_date): min and max in tenths,
\* or the exception
_get_daily_minmax(forecast_data, target_date) ==
  IF forecast_data.list = <<>> THEN NoMinMax
  ELSE IF MinMaxRaises(forecast_data.list, forecast_data.timezone, target_date)
  THEN [raised |-> TRUE, temp_min |-> Null, temp_max |-> Null]
  ELSE LET collected == Collected(forecast_data.list, forecast_data.timezone, target_date)
           temps == [i \in 1..Len(SelectSeq(collected, LAMBDA t : t.k = "num")) |->
                       SelectSeq(collected, LAMBDA t : t.k = "num")[i].v]
       IN IF temps = <<>> THEN NoMinMax
          ELSE [raised |-> FALSE,
                temp_min |-> Num(Round1(SeqMin(temps))),
                temp_max |-> Num(Round1(SeqMax(temps)))]

\* today in the forecast's timezone
Today(forecast_data) == LocalDate(Now, forecast_data.timezone)

\* forecast entries: with min and max, with the point temperature alone,
\* of the next day, with one explicit reading; and malformed ones
Entry(dt, main, lo, hi, temp) ==
  [dt |-> dt, main |-> main, temp_min |-> lo, temp_max |-> hi, temp |-> temp]

WellFormedEntries ==
  { Entry(Num(Day + 3600), "present", Num(1404), Num(1996), Num(1700)),
    Entry(Num(Day + 82800), "present", Absent, Absent, Num(2251)),
    Entry(Num(2 * Day + 3600), "present", Num(-312), Num(3049), Num(1000)),
    Entry(Num(Day + 3600), "present", Num(1207), Absent, Num(1888)) }

MalformedEntries ==
  { Entry(Absent, "present", Num(509), Num(611), Num(550)),
    Entry(Text, "present", Num(509), Num(611), Num(550)),
    Entry(Null, "present", Num(509), Num(611), Num(550)),
    Entry(Num(Day + 3600), "absent", Absent, Absent, Absent),
    Entry(Num(Day + 3600), "null", Absent, Absent, Absent),
    Entry(Num(Day + 3600), "present", Text, Num(611), Num(550)) }

\* what the weather service answers for the current conditions: nothing
\* (None, or an empty object), or the fields it carries
NoCurrent ==
  [ok |-> FALSE, temp |-> None, desc |-> None, feels_like |-> None,
   humidity |-> None, wind |-> None]

FullCurrent ==
  [ok |-> TRUE, temp |-> "18", desc |-> "chuva", feels_like |-> "17",
   humidity |-> "70", wind |-> "3.5"]

\* every field there, one field missing, a feels-like of zero, no field
CurrentReplies ==
  {NoCurrent, FullCurrent, [FullCurrent EXCEPT !.feels_like = "0"],
   [NoCurrent EXCEPT !.ok = TRUE]} \cup
  {[FullCurrent EXCEPT ![f] = None] :
     f \in {"temp", "desc", "feels_like", "humidity", "wind"}}

\* what it answers for the forecast: nothing, a series of today, a series
\* of another day, a series with a malformed entry
NoForecast == [ok |-> FALSE, list |-> <<>>, timezone |-> 0]

ForecastReplies ==
  { NoForecast,
    [ok |-> TRUE, timezone |-> 0,
     list |-> << Entry(Num(Day + 3600), "present", Num(1404), Num(1996), Num(1700)) >>],
    [ok |-> TRUE, timezone |-> 0,
     list |-> << Entry(Num(2 * Day + 3600), "present", Num(-312), Num(3049), Num(1000)) >>],
    [ok |-> TRUE, timezone |-> 0,
     list |-> << Entry(Text, "present", Num(509), Num(611), Num(550)) >>] }

NoRawData ==
  [temp |-> None, desc |-> None, feels_like |-> None, humidity |-> None,
   wind |-> None, daily |-> [temp_min |-> Null, temp_max |-> Null]]

\* WeatherResult(summary=...): raw_data stays None
WeatherFailure(summary, requests) ==
  [summary |-> summary, raw_data |-> NoRawData, has |-> FALSE, raised |-> FALSE,
   requests |-> requests]

\* WeatherResult(summary, raw_data=current), current with its daily block,
\* or the exception of _get_daily_minmax
WeatherFound(current, daily) ==
  IF daily.raised
  THEN [summary |-> <<>>, raw_data |-> NoRawData, has |-> FALSE, raised |-> TRUE,
        requests |-> <<"current", "forecast">>]
  ELSE [summary |-> <<"Em ", "Paris", ": ">>
                      \o (IF current.desc # None THEN <<current.desc>> ELSE <<>>)
                      \o <<", ", current.temp, "°C.">>,
        raw_data |-> [temp |-> current.temp, desc |-> current.desc,
                      feels_like |-> current.feels_like,
                      humidity |-> current.humidity,
                      wind |-> current.wind,
                      daily |-> [temp_min |-> daily.temp_min,
                                 temp_max |-> daily.temp_max]],
        has |-> TRUE, raised |-> FALSE,
        requests |-> <<"current", "forecast">>]

\* variant: without a forecast there is no result either
get_weather_impl_needs_forecast(city, key, current, forecast) ==
  IF ~key
  THEN WeatherFailure(<<"API do clima não configurada.">>, <<>>)
  ELSE IF _sanitize_location(city) = <<>>
  THEN WeatherFailure(<<"Por favor, forneça um nome de cidade válido.">>, <<>>)
  ELSE IF ~current.ok
  THEN WeatherFailure(<<"Não foi possível obter dados do clima. Tente novamente.">>,
                      <<"current">>)
  ELSE IF ~forecast.ok
  THEN WeatherFailure(<<"Não foi possível obter dados do clima. Tente novamente.">>,
                      <<"current", "forecast">>)
  ELSE WeatherFound(current, _get_daily_minmax(forecast, Today(forecast)))

\* get_weather_impl(city, country): WeatherResult(summary, raw_data), the
\* requests it made, or the exception of _get_daily_minmax; `has` is
\* raw_data is not None
get_weather_impl(city, key, current, forecast) ==
  IF ~key
  THEN WeatherFailure(<<"API do clima não configurada.">>, <<>>)
  ELSE IF _sanitize_location(city) = <<>>
  THEN WeatherFailure(<<"Por favor, forneça um nome de cidade válido.">>, <<>>)
  ELSE IF ~current.ok
  THEN WeatherFailure(<<"Não foi possível obter dados do clima. Tente novamente.">>,
                      <<"current">>)
  ELSE WeatherFound(current,
                    IF forecast.ok THEN _get_daily_minmax(forecast, Today(forecast))
                    ELSE NoMinMax)

\* f"{x}" of a number of tenths
Fmt1(n) ==
  IF n < 0 THEN "-" \o ToString((0 - n) \div 10) \o "." \o ToString((0 - n) % 10)
  ELSE ToString(n \div 10) \o "." \o ToString(n % 10)

\* _translate_weather_desc
_translate_weather_desc(desc) == IF desc = "chuva" THEN "Chuva" ELSE desc

\* variant: the min/max segment is always written
WeatherReply_always_minmax(raw) ==
  <<"Em ", "Paris", ": ">>
    \o (IF raw.desc # None THEN <<_translate_weather_desc(raw.desc)>> ELSE <<>>)
    \o <<", ", IF raw.temp # None THEN raw.temp ELSE "N/A", "°C">>
    \o <<" (mín ", raw.daily.temp_min.k, "°C / máx ", raw.daily.temp_max.k, "°C)">>
    \o (IF raw.feels_like # None
        THEN <<". Sensação térmica: ", raw.feels_like, "°C">> ELSE <<>>)
    \o (IF raw.humidity # None THEN <<". Umidade: ", raw.humidity, "%">> ELSE <<>>)
    \o (IF raw.wind # None THEN <<". Vento: ", raw.wind, " m/s">> ELSE <<>>)
    \o <<".">>

\* the reply weather_node composes from raw_data
WeatherReply(raw) ==
  <<"Em ", "Paris", ": ">>
    \o (IF raw.desc # None THEN <<_translate_weather_desc(raw.desc)>> ELSE <<>>)
    \o <<", ", IF raw.temp # None THEN raw.temp ELSE "N/A", "°C">>
    \o (IF raw.daily.temp_min.k = "num" /\ raw.daily.temp_max.k = "num"
        THEN <<" (mín ", Fmt1(raw.daily.temp_min.v), "°C / máx ",
               Fmt1(raw.daily.temp_max.v), "°C)">>
        ELSE <<>>)
    \o (IF raw.feels_like # None
        THEN <<". Sensação térmica: ", raw.feels_like, "°C">> ELSE <<>>)
    \o (IF raw.humidity # None THEN <<". Umidade: ", raw.humidity, "%">> ELSE <<>>)
    \o (IF raw.wind # None THEN <<". Vento: ", raw.wind, " m/s">> ELSE <<>>)
    \o <<".">>

NoCityReply == <<"Desculpe, não consegui identificar a cidade.">>

\* Python truthiness of a reading: None and zero are falsy
Falsy(v) == v = None \/ v = "0"

\* str.title() of the description; a missing description is ""
Title(desc) == IF desc = "chuva" THEN "Chuva" ELSE desc

\* tools/weather_api.py: the text the weather_api tool returns for the
\* result of get_weather_impl; the city is written as it was passed
weather_api(city, result) ==
  IF result.raised THEN <<>>
  ELSE IF ~result.has THEN result.summary
  ELSE LET raw == result.raw_data IN
    <<"Em ">> \o city \o <<": ">>
      \o (IF raw.desc # None THEN <<Title(raw.desc)>> ELSE <<>>)
      \o <<", ", IF raw.temp # None THEN raw.temp ELSE "N/A", "°C">>
      \o (IF raw.daily.temp_min.k # "null" /\ raw.daily.temp_max.k # "null"
          THEN <<". (mín ", Fmt1(raw.daily.temp_min.v), "°C / máx ",
                 Fmt1(raw.daily.temp_max.v), "°C)">>
          ELSE <<>>)
      \o (IF ~Falsy(raw.feels_like)
          THEN <<". Sensação térmica: ", raw.feels_like, "°C">> ELSE <<>>)
      \o (IF ~Falsy(raw.humidity) THEN <<". Umidade: ", raw.humidity, "%">> ELSE <<>>)
      \o (IF ~Falsy(raw.wind) THEN <<". Vento: ", raw.wind, " m/s">> ELSE <<>>)
      \o <<".">>

\* what weather_node leaves of the lookup: the result and how the forecast
\* fetch went
WeatherAdapter(result, forecast) ==
  [kind |-> "weather", result |-> result,
   forecast |-> IF Len(result.requests) < 2 THEN "not fetched"
                ELSE IF forecast.ok THEN "ok" ELSE "failed"]

\* variant: the reply is worded by the model
WeatherNodeThroughModel ==
  /\ pc = "weather"
  /\ llm' = [built |-> llm.built + 1, invoked |-> llm.invoked + 1]
  /\ \E content \in SynthesisReplies : HandlerReturns("weather", << AI(<<content>>) >>)
  /\ deps' = [deps EXCEPT !.weather = @ + 1]
  /\ adapter' = WeatherAdapter(get_weather_impl(<<"Paris">>, FALSE, NoCurrent, NoForecast),
                               NoForecast)
  /\ UNCHANGED << flags, context, turn, decision, response, tools >>

\* variant: the lookup is made before the city is looked at
WeatherNodeLooksUpFirst ==
  /\ pc = "weather"
  /\ \E key \in BOOLEAN, current \in CurrentReplies, forecast \in ForecastReplies :
       LET city == _extract_city(LastQuery(messages)).city
           result == get_weather_impl(city, key, current, forecast)
       IN /\ deps' = [deps EXCEPT !.weather = @ + 1]
          /\ adapter' = WeatherAdapter(result, forecast)
          /\ IF result.raised THEN HandlerRaises("weather", "error")
             ELSE HandlerReturns("weather",
                    << AI(IF city = <<>> THEN NoCityReply
                          ELSE IF result.has THEN WeatherReply(result.raw_data)
                          ELSE result.summary) >>)
  /\ UNCHANGED << flags, context, turn, decision, llm, response, tools >>

WeatherNode ==
  /\ pc = "weather"
  /\ LET city == _extract_city(LastQuery(messages)).city IN
     IF city = <<>>
     THEN /\ HandlerReturns("weather", << AI(NoCityReply) >>)
          /\ UNCHANGED << deps, adapter >>
     ELSE \E key \in BOOLEAN, current \in CurrentReplies, forecast \in ForecastReplies :
            LET result == get_weather_impl(city, key, current, forecast) IN
              /\ deps' = [deps EXCEPT !.weather = @ + 1]
              /\ adapter' = WeatherAdapter(result, forecast)
              /\ IF result.raised THEN HandlerRaises("weather", "error")
                 ELSE HandlerReturns("weather",
                        << AI(IF result.has THEN WeatherReply(result.raw_data)
                              ELSE result.summary) >>)
  /\ UNCHANGED << flags, context, turn, decision, llm, response, tools >>

(***************************************************************************)
(* tools/web_search.py: _run_web_search as the fallback node sees it;      *)
(* graph/nodes.py: fallback_search_node                                    *)
(***************************************************************************)
\* most results (with a URL) the search service answers with in the model
MaxResults == 4
\* links = [...][:5]
MaxLinks == 5
\* the Sources block lists result.links[:3]
MaxSources == 3
\* the fallback synthesis keeps sentences with len(s.strip()) > 40
MinSentence == 40

Urls == <<"u1", "u2", "u3", "u4", "u5", "u6">>

\* the sanitized snippets of a response, as sentences
Summaries ==
  { <<>>, <<"short one.">>, <<"A long sentence 1.">>,
    <<"Portal long sentence.", "A long sentence 1.">>,
    <<"A long sentence 1.", "short one.", "A long sentence 2.",
      "A long sentence 3.", "A long sentence 4.">> }

\* len(s.strip()) of a sentence
SentenceLen(x) ==
  CASE x = "short one." -> 10
    [] x = "Erro na busca: timeout." -> 23
    [] x \in {"Set TAVILY_API_KEY in .env."} -> 27
    [] x \in {"Tente reformular a pergunta.", "Nenhum resultado encontrado."} -> 28
    [] x = "Web search is not configured." -> 29
    [] x = "Limite de requisições atingido." -> 31
    [] x = "Tente novamente em alguns instantes." -> 36
    [] x = "Erro na busca: got an unexpected keyword argument 'answer'." -> 86
    [] OTHER -> 60

\* s.strip().startswith(("Portal", "Menu", "Perfil do", "Foto "))
StartsWithChrome(x) == x = "Portal long sentence."

\* the pre-synthesized answer of the search service
TavilyAnswer == "Resposta pronta."

\* what the search service does: no key, an exception, or a response with
\* or without a pre-synthesized answer; the responses vary in the number
\* of results and, for one result or none, in the snippets
SearchReplies ==
  {[kind |-> "no_key", answer |-> FALSE, n |-> 0, text |-> <<>>],
   [kind |-> "rate limit", answer |-> FALSE, n |-> 0, text |-> <<>>],
   [kind |-> "timeout", answer |-> FALSE, n |-> 0, text |-> <<>>],
   [kind |-> "response", answer |-> TRUE, n |-> 1, text |-> <<"A long sentence 1.">>]}
    \cup [kind : {"response"}, answer : {FALSE}, n : 0..MaxResults,
          text : {<<"A long sentence 1.">>}]
    \cup [kind : {"response"}, answer : {FALSE}, n : {1}, text : Summaries]
    \cup {[kind |-> "response", answer |-> FALSE, n |-> 0, text |-> <<>>]}

Min(a, b) == IF a <= b THEN a ELSE b

\* WebSearchResult(summary, links), as sentences and URLs; answer is None
\* throughout.  tools/base.py declares no `answer` field: with a
\* pre-synthesized answer WebSearchResult(..., answer=...) raises TypeError
\* inside the try, and the except branch returns the error result.
_run_web_search(query, reply) ==
  CASE reply.kind = "no_key" ->
         [summary |-> <<"Web search is not configured.", "Set TAVILY_API_KEY in .env.">>,
          links |-> <<>>, answer |-> None]
    [] reply.kind = "rate limit" ->
         [summary |-> <<"Limite de requisições atingido.",
                        "Tente novamente em alguns instantes.">>,
          links |-> <<>>, answer |-> None]
    [] reply.kind = "timeout" ->
         [summary |-> <<"Erro na busca: timeout.", "Tente reformular a pergunta.">>,
          links |-> <<>>, answer |-> None]
    [] reply.kind = "response" /\ reply.answer ->
         [summary |-> <<"Erro na busca: got an unexpected keyword argument 'answer'.",
                        "Tente reformular a pergunta.">>,
          links |-> <<>>, answer |-> None]
    [] OTHER ->
         [summary |-> IF reply.text = <<>> THEN <<"Nenhum resultado encontrado.">>
                      ELSE reply.text,
          links |-> SubSeq(Urls, 1, Min(reply.n, MaxLinks)), answer |-> None]

\* the sentences kept by the except branch: longer than 40 characters and
\* not starting like a page's chrome
RECURSIVE Useful(_)
Useful(sentences) ==
  IF sentences = <<>> THEN <<>>
  ELSE (IF SentenceLen(Head(sentences)) > MinSentence /\ ~StartsWithChrome(Head(sentences))
        THEN <<Head(sentences)>> ELSE <<>>)
         \o Useful(Tail(sentences))

\* "\n\nFontes:\n" + "\n".join(f"[{i+1}] {link}" ...) over links[:3]
SourcesBlock(links) ==
  <<"Fontes:">> \o [i \in 1..Min(Len(links), MaxSources) |-> "[" \o links[i]]

\* "[" in answer
HasBracket(answer) ==
  \E i \in 1..Len(answer) :
    answer[i] = "Resposta [1]." \/ answer[i] \in {"[" \o Urls[k] : k \in 1..Len(Urls)}

\* variant: the first three sentences, whatever their length
FallbackSynthesis_first_three(result) ==
  LET brief == SubSeq(result.summary, 1, Min(Len(result.summary), 3))
      answer == <<"Com base na pesquisa: ">> \o brief
  IN IF result.links # <<>> THEN answer \o SourcesBlock(result.links) ELSE answer

\* the except branch: up to 3 useful sentences, or the head of the summary
FallbackSynthesis(result) ==
  LET useful == Useful(result.summary)
      brief == IF useful = <<>> THEN result.summary
               ELSE SubSeq(useful, 1, Min(Len(useful), 3))
      answer == <<"Com base na pesquisa: ">> \o brief
  IN IF result.links # <<>> THEN answer \o SourcesBlock(result.links) ELSE answer

\* the final `if result.links and "[" not in answer`
WithSources(answer, result) ==
  IF result.links # <<>> /\ ~HasBracket(answer)
  THEN answer \o SourcesBlock(result.links) ELSE answer

FallbackSearchNode ==
  /\ pc = "fallback_search"
  /\ LET query == LastQuery(messages) IN
     IF query = <<>>
     THEN /\ HandlerReturns("fallback_search", << AI(<<"Não recebi uma pergunta.">>) >>)
          /\ UNCHANGED << llm, deps, adapter >>
     ELSE \E reply \in SearchReplies :
            LET result == _run_web_search(query, reply) IN
              /\ deps' = [deps EXCEPT !.search = @ + 1]
              /\ llm' = [built |-> llm.built + 1, invoked |-> llm.invoked + 1]
              /\ \/ \E content \in SynthesisReplies :
                      /\ HandlerReturns("fallback_search",
                           << AI(WithSources(
                                   IF content = ""
                                   THEN <<"Não foi possível sintetizar os resultados.">>
                                   ELSE <<content>>, result)) >>)
                      /\ adapter' = [kind |-> "search",
                                     answered |-> reply.kind = "response" /\ reply.answer,
                                     n |-> reply.n,
                                     result |-> result, synthesis |-> "ok"]
                 \/ \E e \in LlmFailures :
                      /\ HandlerReturns("fallback_search",
                           << AI(WithSources(FallbackSynthesis(result), result)) >>)
                      /\ adapter' = [kind |-> "search",
                                     answered |-> reply.kind = "response" /\ reply.answer,
                                     n |-> reply.n,
                                     result |-> result, synthesis |-> "failed"]
  /\ UNCHANGED << flags, context, turn, decision, response, tools >>

(***************************************************************************)
(* graph/nodes.py: executor_node.  The reasoning loop (create_react_agent) *)
(* is the model's to run: it raises what the model raises, or returns its  *)
(* input followed by the messages it produced.                             *)
(***************************************************************************)
\* what the loop may produce: nothing, a final answer (possibly empty), or
\* a tool call, the tool's result and a final answer
AgentRuns ==
  { <<>>,
    << <<"ai", <<"Resposta.">> >> >>,
    << <<"ai", <<>> >> >>,
    << <<"ai", <<>> >>, <<"tool", <<"rows">> >>, <<"ai", <<"Resposta.">> >> >> }

Stamp(run) == [i \in 1..Len(run) |-> Msg(run[i][1], run[i][2], turn)]

\* [m for m in new_messages if isinstance(m, AIMessage)][-1:]
LastAI(msgs) ==
  LET as == {i \in 1..Len(msgs) : msgs[i].role = "ai"}
  IN IF as = {} THEN <<>> ELSE << msgs[CHOOSE i \in as : \A j \in as : j <= i] >>

\* what the loop was given, what it produced and what the handler returned
AgentAdapter(before, run, returned) ==
  [kind |-> "agent", before |-> before, run |-> run, returned |-> returned]

\* variant: the handler returns everything the loop returned, its input
\* included
ExecutorNodeReturnsAll ==
  /\ pc = "executor"
  /\ llm' = [built |-> llm.built + 1, invoked |-> llm.invoked + 1]
  /\ deps' = [deps EXCEPT !.agent = @ + 1]
  /\ \/ \E e \in LlmFailures : HandlerRaises("executor", e) /\ adapter' = adapter
     \/ \E run \in AgentRuns :
          LET messages_with_system == <<Msg("system", <<"system_prompt">>, turn)>> \o messages
              new_messages == messages_with_system \o Stamp(run)
          IN /\ HandlerReturns("executor", new_messages)
             /\ adapter' = AgentAdapter(messages, Stamp(run), new_messages)
  /\ UNCHANGED << flags, context, turn, decision, response, tools >>

ExecutorNode ==
  /\ pc = "executor"
  /\ llm' = [built |-> llm.built + 1, invoked |-> llm.invoked + 1]
  /\ deps' = [deps EXCEPT !.agent = @ + 1]
  /\ \/ \E e \in LlmFailures : HandlerRaises("executor", e) /\ adapter' = adapter
     \/ \E run \in AgentRuns :
          LET messages_with_system == <<Msg("system", <<"system_prompt">>, turn)>> \o messages
              new_messages == messages_with_system \o Stamp(run)
              num_original == Len(messages_with_system)
              returned == IF Len(new_messages) > num_original
                          THEN SubSeq(new_messages, num_original + 1, Len(new_messages))
                          ELSE LastAI(new_messages)
          IN /\ HandlerReturns("executor", returned)
             /\ adapter' = AgentAdapter(messages, Stamp(run), returned)
  /\ UNCHANGED << flags, context, turn, decision, response, tools >>

(***************************************************************************)
(* graph/nodes.py: user_node, memory_node                                  *)
(***************************************************************************)
\* returns the state it was given: the merge changes nothing
UserNode ==
  /\ pc = "user"
  /\ pc' = "planner"
  /\ trace' = Append(trace, "user")
  /\ UNCHANGED << messages, flags, context, turn, decision, llm, deps, raised,
                  response, adapter, tools >>

\* context_messages = messages[-20:] if len(messages) > 20 else messages
context_messages(msgs) ==
  IF Len(msgs) > MemoryWindow
  THEN SubSeq(msgs, Len(msgs) - MemoryWindow + 1, Len(msgs)) ELSE msgs

\* return {"context": str(len(context_messages)) + " messages in context"}
MemoryNode ==
  /\ pc = "memory"
  /\ context' = << Len(context_messages(messages)), " messages in context" >>
  /\ trace' = Append(trace, "memory")
  /\ pc' = "end"
  /\ UNCHANGED << messages, flags, turn, decision, llm, deps, raised, response,
                  adapter, tools >>

(***************************************************************************)
(* app/main.py: chat.  A turn starts with graph.stream on the checkpointed *)
(* state plus the request's message, and ends with the response built from *)
(* the final state or from the exception that left the graph.              *)
(***************************************************************************)
NoResponse == [error |-> "", content |-> <<>>, turn |-> 0, sent |-> FALSE]

\* what a run of the graph is given: nothing, or one user message
UserInputs == {<<>>} \cup {<< Msg("human", c, 0) >> : c \in Contents}

StartTurn(input) ==
  /\ pc = "idle"
  /\ messages' = add_messages(messages, [i \in 1..Len(input) |-> [input[i] EXCEPT !.turn = turn + 1]])
  /\ turn' = turn + 1
  /\ pc' = "user"
  /\ trace' = <<>>
  /\ decision' = NoDecision
  /\ llm' = NoLlm
  /\ deps' = NoDeps
  /\ raised' = ""
  /\ response' = NoResponse
  /\ adapter' = NoAdapter
  /\ UNCHANGED << flags, context, tools >>

\* for m in reversed(messages): if isinstance(m, AIMessage) and m.content
LastAIContent(msgs) ==
  LET as == {i \in 1..Len(msgs) : msgs[i].role = "ai" /\ Truthy(msgs[i].content)}
  IN IF as = {} THEN NoMessage ELSE msgs[CHOOSE i \in as : \A j \in as : j <= i]

\* variant: every exception that leaves the graph is an internal error
ChatReturn_no_quota_branch ==
  /\ pc \in {"end", "raised"}
  /\ response' =
       IF pc = "raised"
       THEN [error |-> "internal_error",
             content |-> <<"Erro ao processar sua mensagem: ", raised>>,
             turn |-> turn, sent |-> TRUE]
       ELSE [error |-> "", content |-> LastAIContent(messages).content,
             turn |-> LastAIContent(messages).turn, sent |-> TRUE]
  /\ pc' = "idle"
  /\ UNCHANGED << messages, flags, context, turn, trace, decision, llm, deps,
                  raised, adapter, tools >>

ChatReturn ==
  /\ pc \in {"end", "raised"}
  /\ response' =
       IF pc = "raised"
       THEN IF raised = "rate_limit"
            THEN [error |-> "rate_limit_exceeded",
                  content |-> <<"Desculpe, a quota da API OpenAI foi excedida.">>,
                  turn |-> turn, sent |-> TRUE]
            ELSE [error |-> "internal_error",
                  content |-> <<"Erro ao processar sua mensagem: ", raised>>,
                  turn |-> turn, sent |-> TRUE]
       ELSE [error |-> "", content |-> LastAIContent(messages).content,
             turn |-> LastAIContent(messages).turn, sent |-> TRUE]
  /\ pc' = "idle"
  /\ UNCHANGED << messages, flags, context, turn, trace, decision, llm, deps,
                  raised, adapter, tools >>

----------------------------------------------------------------------------
(***************************************************************************)
(* tools/sql_db.py: the SQL guard and the execution adapter.  A query is a *)
(* sequence of words, possibly with whitespace at its two ends.            *)
(***************************************************************************)
\* longest SQL text, in words
MaxSqlWords == 3

FORBIDDEN_KEYWORDS ==
  << "DROP", "TRUNCATE", "ALTER", "CREATE", "INSERT", "UPDATE", "DELETE",
     "GRANT", "REVOKE", "EXECUTE", "EXEC", "--", "/*", "*/" >>

SqlWords ==
  { "SELECT", "select", "1", "FROM", "x", "TABLE", "UNION", "COMMIT",
    "DROP", "drop", "DELETE", "UPDATE", "TRUNCATE",
    "raindrops", "updated_at", "--" }

\* str.upper() on one word
UpperWord(w) ==
  CASE w = "select" -> "SELECT"
    [] w = "drop" -> "DROP"
    [] w = "x" -> "X"
    [] w = "raindrops" -> "RAINDROPS"
    [] w = "updated_at" -> "UPDATED_AT"
    [] OTHER -> w

\* `kw in w` for an uppercased word w
UpperContains(w, kw) ==
  \/ w = kw
  \/ w = "RAINDROPS" /\ kw = "DROP"
  \/ w = "UPDATED_AT" /\ kw = "UPDATE"

\* `kw in upper`
TextHasKeyword(query, kw) ==
  \E i \in 1..Len(query) : UpperContains(UpperWord(query[i]), kw)

\* sqlglot.parse_one(query_clean, dialect="postgres"): the class of the
\* root of the first statement, or "ParseError"
ParseRoot(query_clean) ==
  IF query_clean = <<>> THEN "ParseError"
  ELSE LET verb == UpperWord(Head(query_clean)) IN
    CASE verb = "SELECT" ->
           IF \E i \in 2..Len(query_clean) : UpperWord(query_clean[i]) = "UNION"
           THEN IF UpperWord(query_clean[Len(query_clean)]) = "UNION"
                THEN "ParseError" ELSE "Union"
           ELSE "Select"
      [] verb = "COMMIT" -> "Commit"
      [] verb = "DROP" -> "Drop"
      [] verb = "DELETE" -> "Delete"
      [] verb = "UPDATE" -> "Update"
      [] verb = "TRUNCATE" -> "TruncateTable"
      [] verb \in {"1", "X", "RAINDROPS", "UPDATED_AT"} ->
           IF Len(query_clean) = 1 THEN "Column" ELSE "ParseError"
      [] OTHER -> "ParseError"

\* variant: the keyword scan is the whole guard
_validate_sql_keywords_only(query) ==
  LET query_clean == Strip(query)
      found == {k \in 1..Len(FORBIDDEN_KEYWORDS) :
                  TextHasKeyword(query_clean, FORBIDDEN_KEYWORDS[k])}
  IN IF found # {}
     THEN [ok |-> FALSE,
           err |-> <<"Query contains forbidden keyword or pattern: ",
                     FORBIDDEN_KEYWORDS[CHOOSE k \in found : \A j \in found : k <= j]>>]
     ELSE [ok |-> TRUE, err |-> <<>>]

\* the verdict (allowed, error_message); the message names the keyword found
_validate_sql(query) ==
  LET query_clean == Strip(query)
      found == {k \in 1..Len(FORBIDDEN_KEYWORDS) :
                  TextHasKeyword(query_clean, FORBIDDEN_KEYWORDS[k])}
  IN IF found # {}
     THEN [ok |-> FALSE,
           err |-> <<"Query contains forbidden keyword or pattern: ",
                     FORBIDDEN_KEYWORDS[CHOOSE k \in found : \A j \in found : k <= j]>>]
     ELSE IF ParseRoot(query_clean) = "ParseError"
     THEN [ok |-> FALSE, err |-> <<"Invalid SQL: ", "ParseError">>]
     ELSE IF ParseRoot(query_clean) # "Select"
     THEN [ok |-> FALSE, err |-> <<"Only SELECT queries are allowed.">>]
     ELSE [ok |-> TRUE, err |-> <<>>]

\* what the database does with an executed statement
DbReplies == {"rows", "no rows", "OperationalError"}

\* variant: the statement is executed before the verdict is looked at
run_sql_impl_unguarded(query, db) ==
  LET verdict == _validate_sql(query) IN
    [query |-> query, verdict |-> verdict, executed |-> <<query>>,
     raised |-> FALSE,
     result |-> IF ~verdict.ok THEN <<"Query not allowed: ">> \o verdict.err
                ELSE CASE db = "rows" -> <<"a", "1">>
                       [] db = "no rows" -> <<"No rows returned.">>
                       [] OTHER -> <<"Execution error: ", db>>]

\* run_sql_impl(query, db, params): the string it returns, the statements
\* it executed on a connection, and the exception it let out (none)
run_sql_impl(query, db) ==
  LET verdict == _validate_sql(query) IN
    IF ~verdict.ok
    THEN [query |-> query, verdict |-> verdict, executed |-> <<>>,
          raised |-> FALSE,
          result |-> <<"Query not allowed: ">> \o verdict.err]
    ELSE [query |-> query, verdict |-> verdict, executed |-> <<query>>,
          raised |-> FALSE,
          result |-> CASE db = "rows" -> <<"a", "1">>
                       [] db = "no rows" -> <<"No rows returned.">>
                       [] OTHER -> <<"Execution error: ", db>>]

SqlQueries ==
  LET RECURSIVE Seqs(_)
      Seqs(n) == IF n = 0 THEN {<<>>}
                 ELSE Seqs(n - 1) \cup
                      {Append(q, w) : q \in {t \in Seqs(n - 1) : Len(t) = n - 1},
                                      w \in SqlWords}
  IN Seqs(MaxSqlWords) \cup {<<WS, "SELECT", "1", WS>>, <<WS, "DROP", "TABLE", "x">>}

NoSql ==
  [query |-> <<>>, verdict |-> [ok |-> FALSE, err |-> <<>>], executed |-> <<>>,
   raised |-> FALSE, result |-> <<"idle">>]

\* the sql_db tool is called and runs run_sql_impl
SqlTool ==
  /\ sql = NoSql
  /\ \E query \in SqlQueries, db \in DbReplies : sql' = run_sql_impl(query, db)
  /\ UNCHANGED << graphVars, wx, mm, cx, cw >>

\* the tool's string went back to the reasoning loop
SqlDone ==
  /\ sql # NoSql
  /\ sql' = NoSql
  /\ UNCHANGED << graphVars, wx, mm, cx, cw >>

(***************************************************************************)
(* tools/weather_api.py: _http_get, and get_weather_impl request by        *)
(* request                                                                 *)
(***************************************************************************)
MAX_RETRIES == 3
BACKOFF_SEC == 2

\* what a request ends in: a status code, a timeout, a network error
HttpStatuses == {"200", "429", "timeout", "network", "404", "500"}

\* the outcomes after which the loop goes on
Retryable == {"429", "timeout", "network"}

\* the city argument of a lookup: a name, punctuation alone, nothing
CityInputs == { <<"Paris">>, <<Punct>>, <<>>, <<WS, Punct, WS>>, <<Punct, "Paris">> }

\* the JSON of a 200 response: an empty object is falsy
CurrentBodies ==
  { NoCurrent, FullCurrent, [FullCurrent EXCEPT !.feels_like = "0", !.wind = None] }

NoResult ==
  [summary |-> <<>>, raw_data |-> NoRawData, has |-> FALSE, raised |-> FALSE,
   requests |-> <<>>]

NoWx ==
  [pc |-> "idle", city |-> <<>>, key |-> FALSE, attempt |-> 0,
   requests |-> <<>>, sleeps |-> <<>>,
   returned |-> [current |-> "not called", forecast |-> "not called"],
   current |-> NoCurrent, forecast |-> NoForecast, result |-> NoResult,
   text |-> <<>>]

\* get_weather_impl returns its result to weather_api
ToolReturns(w, result) == [w EXCEPT !.pc = "format", !.result = result]

\* weather_api up to the first request of get_weather_impl
WxStart ==
  /\ wx.pc = "idle"
  /\ \E city \in CityInputs, key \in BOOLEAN :
       wx' = IF ~key \/ _sanitize_location(city) = <<>>
             THEN ToolReturns([wx EXCEPT !.city = city, !.key = key],
                              get_weather_impl(city, key, NoCurrent, NoForecast))
             ELSE [wx EXCEPT !.pc = "current", !.city = city, !.key = key]
  /\ UNCHANGED << graphVars, sql, mm, cx, cw >>

\* weather_api from the return of _http_get on
HttpReturns(w, url, json, body) ==
  LET r == [w EXCEPT !.returned[url] = IF json THEN "json" ELSE "None"] IN
    IF url = "current"
    THEN IF ~body.ok
         THEN ToolReturns([r EXCEPT !.current = body],
                          get_weather_impl(w.city, w.key, body, NoForecast))
         ELSE [r EXCEPT !.pc = "forecast", !.attempt = 0, !.current = body]
    ELSE ToolReturns([r EXCEPT !.forecast = body],
                     get_weather_impl(w.city, w.key, w.current, body))

Nothing(url) == IF url = "current" THEN NoCurrent ELSE NoForecast

\* weather_api from the return of get_weather_impl on: the text it returns
WxFormat ==
  /\ wx.pc = "format"
  /\ wx' = [wx EXCEPT !.pc = "done", !.text = weather_api(wx.city, wx.result)]
  /\ UNCHANGED << graphVars, sql, mm, cx, cw >>

\* variant: every failure is retried
_http_get_retries_all(url) ==
  /\ wx.pc = url
  /\ \E status \in HttpStatuses :
       LET sent == [wx EXCEPT !.requests = Append(@, [url |-> url, status |-> status])]
           slept == [sent EXCEPT
                       !.sleeps = Append(@, [url |-> url,
                                             sec |-> BACKOFF_SEC * (wx.attempt + 1)]),
                       !.attempt = @ + 1]
       IN IF status = "200"
          THEN \E body \in IF url = "current" THEN CurrentBodies ELSE ForecastReplies :
                 wx' = HttpReturns(sent, url, TRUE, body)
          ELSE wx' = IF slept.attempt = MAX_RETRIES
                     THEN HttpReturns(slept, url, FALSE, Nothing(url))
                     ELSE slept
  /\ UNCHANGED << graphVars, sql, mm, cx, cw >>

\* one pass of the loop of _http_get: a request and what follows it
_http_get(url) ==
  /\ wx.pc = url
  /\ \E status \in HttpStatuses :
       LET sent == [wx EXCEPT !.requests = Append(@, [url |-> url, status |-> status])]
           slept == [sent EXCEPT
                       !.sleeps = Append(@, [url |-> url,
                                             sec |-> BACKOFF_SEC * (wx.attempt + 1)]),
                       !.attempt = @ + 1]
       IN IF status = "200"
          THEN \E body \in IF url = "current" THEN CurrentBodies ELSE ForecastReplies :
                 wx' = HttpReturns(sent, url, TRUE, body)
          ELSE IF status \in Retryable
          THEN wx' = IF slept.attempt = MAX_RETRIES
                     THEN HttpReturns(slept, url, FALSE, Nothing(url))
                     ELSE slept
          ELSE wx' = HttpReturns(sent, url, FALSE, Nothing(url))
  /\ UNCHANGED << graphVars, sql, mm, cx, cw >>

(***************************************************************************)
(* tools/weather_api.py: _get_daily_minmax on a series                     *)
(***************************************************************************)
\* longest forecast series
MaxSeries == 2

RECURSIVE SeriesOf(_)
SeriesOf(n) ==
  IF n = 0 THEN {<<>>}
  ELSE SeriesOf(n - 1) \cup
       {Append(s, e) : s \in {t \in SeriesOf(n - 1) : Len(t) = n - 1},
                       e \in WellFormedEntries \cup MalformedEntries}

\* the timezone offsets and the target dates of the calls
Offsets == {0, 0 - 10800, 7200}
TargetDates == {1, 2}

NoMm == [series |-> <<>>, tz |-> 0, target |-> 0, done |-> FALSE, result |-> NoMinMax]

DailyMinMax ==
  /\ ~mm.done
  /\ mm.target # 0
  /\ mm' = [mm EXCEPT !.done = TRUE,
                      !.result = _get_daily_minmax(
                                   [ok |-> TRUE, list |-> mm.series, timezone |-> mm.tz],
                                   mm.target)]
  /\ UNCHANGED << graphVars, sql, wx, cx, cw >>

----------------------------------------------------------------------------

(***************************************************************************)
(* tools/web_search.py: _clean_web_content.  A text is a sequence of lines *)
(* and a line a sequence of items that single spaces separate: a sentence  *)
(* of 75 characters, a phrase of 28 characters without punctuation, a URL, *)
(* a URL with an uppercase scheme, a short label, cookie boilerplate.      *)
(***************************************************************************)
S1 == "O prefeito anunciou ontem um novo plano de mobilidade urbana para a cidade."
P1 == "Chuva forte atinge a capital"
Url == "https://example.com/page"
UrlUpper == "HTTP://EXAMPLE.COM/PAGE"
Label == "Menu:"
Cookies == "Aceitar cookies"
\* what a removed URL leaves between its two separators
Gap == ""

Items == {S1, P1, Url, UrlUpper, Label, Cookies}

ItemLen(w) ==
  CASE w = S1 -> 75
    [] w = P1 -> 28
    [] w = Url -> 24
    [] w = UrlUpper -> 23
    [] w = Label -> 5
    [] w = Cookies -> 15
    [] OTHER -> 0

\* str.lower() on an item
LowerItem(w) ==
  CASE w = S1 -> "o prefeito anunciou ontem um novo plano de mobilidade urbana para a cidade."
    [] w = P1 -> "chuva forte atinge a capital"
    [] w = UrlUpper -> "http://example.com/page"
    [] w = Label -> "menu:"
    [] w = Cookies -> "aceitar cookies"
    [] OTHER -> w

\* the first line length that is kept, the length of the dedupe prefix
MinLine == 30
NormCut == 60

\* line.strip()
RECURSIVE StripGaps(_)
StripGaps(line) ==
  IF line = <<>> THEN <<>>
  ELSE IF Head(line) = Gap THEN StripGaps(Tail(line))
  ELSE IF line[Len(line)] = Gap THEN StripGaps(SubSeq(line, 1, Len(line) - 1))
  ELSE line

\* len(stripped)
RECURSIVE LineLen(_)
LineLen(line) ==
  IF line = <<>> THEN 0
  ELSE ItemLen(Head(line)) + (IF Len(line) > 1 THEN 1 ELSE 0) + LineLen(Tail(line))

\* a text cut to its first n characters and stripped on the right: the
\* items it holds and how much of each is left
RECURSIVE CutItems(_, _)
CutItems(line, n) ==
  IF line = <<>> \/ n <= 0 THEN <<>>
  ELSE IF ItemLen(Head(line)) >= n THEN << [w |-> Head(line), n |-> n] >>
  ELSE << [w |-> Head(line), n |-> ItemLen(Head(line))] >>
         \o CutItems(Tail(line), n - ItemLen(Head(line)) - 1)

\* norm = stripped.lower()[:60]
Norm(line) ==
  LET head == CutItems(line, NormCut)
  IN [i \in 1..Len(head) |-> [w |-> LowerItem(head[i].w), n |-> head[i].n]]

\* the loop over the lines: short lines, noise lines and lines whose
\* prefix was seen are dropped
RECURSIVE KeptLines(_, _)
KeptLines(lines, seen) ==
  IF lines = <<>> THEN <<>>
  ELSE LET stripped == StripGaps(Head(lines)) IN
    IF \/ LineLen(stripped) < MinLine
       \/ \E i \in 1..Len(stripped) : stripped[i] = Cookies  \* _NOISE_PATTERNS
       \/ Norm(stripped) \in seen
    THEN KeptLines(Tail(lines), seen)
    ELSE <<stripped>> \o KeptLines(Tail(lines), seen \cup {Norm(stripped)})

\* " ".join(kept), then re.sub(r"\s{2,}", " ", clean)
RECURSIVE JoinLines(_)
JoinLines(lines) ==
  IF lines = <<>> THEN <<>>
  ELSE SelectSeq(Head(lines), LAMBDA w : w # Gap) \o JoinLines(Tail(lines))

\* re.sub(r"(\b\w[\w\s]{5,50})\1+", r"\1", clean): a run of the phrase
\* collapses to one when text follows it; the last copy of a run that ends
\* the text has no trailing space and stays
RECURSIVE CollapseRepeats(_)
CollapseRepeats(clean) ==
  IF clean = <<>> THEN <<>>
  ELSE IF Len(clean) >= 3 /\ clean[1] = P1 /\ clean[2] = P1
  THEN CollapseRepeats(Tail(clean))
  ELSE <<Head(clean)>> \o CollapseRepeats(Tail(clean))

_clean_web_content(text, max_chars) ==
  IF text = <<>> THEN <<>>
  ELSE LET \* re.sub(r"https?://\S+", "", text): the pattern is case-sensitive
           lines == [i \in 1..Len(text) |->
                      [k \in 1..Len(text[i]) |->
                         IF text[i][k] = Url THEN Gap ELSE text[i][k]]]
           clean == CollapseRepeats(JoinLines(KeptLines(lines, {})))
       IN CutItems(clean, max_chars)

\* the city extractor and the content sanitizer, not called
NoCx == [query |-> <<>>, done |-> FALSE, result |-> NoCity]

NoCw == [text |-> <<>>, max_chars |-> 0, done |-> FALSE, out |-> <<>>]

GraphInit ==
  /\ messages = <<>>
  /\ need_web_fallback = None
  /\ is_conversational = None
  /\ is_weather_query = None
  /\ context = <<>>
  /\ pc = "idle"
  /\ turn = 0
  /\ trace = <<>>
  /\ decision = NoDecision
  /\ llm = NoLlm
  /\ deps = NoDeps
  /\ raised = ""
  /\ response = NoResponse
  /\ adapter = NoAdapter

Init == GraphInit /\ sql = NoSql /\ wx = NoWx /\ mm = NoMm /\ cx = NoCx /\ cw = NoCw

\* the next request comes without a conversation id: a fresh thread
NewConversation ==
  /\ pc = "idle"
  /\ turn > 0
  /\ messages' = <<>>
  /\ need_web_fallback' = None
  /\ is_conversational' = None
  /\ is_weather_query' = None
  /\ context' = <<>>
  /\ turn' = 0
  /\ trace' = <<>>
  /\ decision' = NoDecision
  /\ llm' = NoLlm
  /\ deps' = NoDeps
  /\ raised' = ""
  /\ response' = NoResponse
  /\ adapter' = NoAdapter
  /\ UNCHANGED << pc, tools >>

Nodes ==
  \/ UserNode
  \/ PlannerNode
  \/ ConversationNode
  \/ WeatherNode
  \/ FallbackSearchNode
  \/ ExecutorNode
  \/ MemoryNode

\* every first turn of a conversation, on every input
Next ==
  \/ pc = "idle" /\ turn = 0 /\ \E input \in UserInputs : StartTurn(input)
  \/ Nodes
  \/ ChatReturn
  \/ NewConversation

Spec == Init /\ [][Next]_vars

\* the SQL tool alone, on every query
NextSql == SqlTool \/ SqlDone

SpecSql == Init /\ [][NextSql]_vars

\* most turns of one conversation id
MaxTurns == 11

\* two short messages: a greeting, and one with a weather keyword ("sol")
\* and no city
TurnInputs ==
  { << Msg("human", <<"Oi">>, 0) >>, << Msg("human", <<"console">>, 0) >> }

\* turn after turn on one conversation id
NextTurns ==
  \/ pc = "idle" /\ turn < MaxTurns /\ \E input \in TurnInputs : StartTurn(input)
  \/ UserNode
  \/ PlannerNode
  \/ ConversationNode
  \/ WeatherNode
  \/ MemoryNode
  \/ ChatReturn

SpecTurns == Init /\ [][NextTurns]_vars

\* most turns of a dialogue
MaxDialogTurns == 2

\* a greeting, a message with a weather keyword, a message for the model
DialogInputs ==
  { << Msg("human", <<"Oi">>, 0) >>, << Msg("human", <<"console">>, 0) >>,
    << Msg("human", <<"produtos">>, 0) >> }

\* turn after turn on one conversation id, on every route
NextDialog ==
  \/ pc = "idle" /\ turn < MaxDialogTurns /\ \E input \in DialogInputs : StartTurn(input)
  \/ Nodes
  \/ ChatReturn

SpecDialog == Init /\ [][NextDialog]_vars

\* one weather lookup, request by request
NextWeather ==
  \/ WxStart
  \/ _http_get("current")
  \/ _http_get("forecast")
  \/ WxFormat

SpecWeather == Init /\ [][NextWeather]_vars

\* a request that can be made is made
SpecWeatherFair == SpecWeather /\ WF_vars(NextWeather)

\* longest query handed to the city extractor, in words
MaxCityWords == 3

\* words of the queries: stop words, prepositions, cities with and without
\* a country, a lowercase word, a word with a question mark
CityTokens ==
  { "Clima", "Como", "em", "at", "Paris", "Londrina/PR", "Paris,", "France",
    "hoje", "clima?" }

RECURSIVE CityQueries(_)
CityQueries(n) ==
  IF n = 0 THEN {<<>>}
  ELSE CityQueries(n - 1) \cup
       {Append(q, w) : q \in {t \in CityQueries(n - 1) : Len(t) = n - 1},
                       w \in CityTokens}

ExtractCity ==
  /\ ~cx.done
  /\ cx' = [cx EXCEPT !.done = TRUE, !.result = _extract_city(cx.query)]
  /\ UNCHANGED << graphVars, sql, wx, mm, cw >>

\* _extract_city on every query
InitCity ==
  /\ GraphInit /\ sql = NoSql /\ wx = NoWx /\ mm = NoMm /\ cw = NoCw
  /\ cx \in [query : CityQueries(MaxCityWords), done : {FALSE}, result : {NoCity}]

SpecCity == InitCity /\ [][ExtractCity]_vars

\* most items of a line, most lines of a text
MaxItems == 2
MaxLines == 2

RECURSIVE LinesOf(_)
LinesOf(n) ==
  IF n = 0 THEN {<<>>}
  ELSE LinesOf(n - 1) \cup
       {Append(l, w) : l \in {t \in LinesOf(n - 1) : Len(t) = n - 1}, w \in Items}

RECURSIVE TextsOf(_)
TextsOf(n) ==
  IF n = 0 THEN {<<>>}
  ELSE TextsOf(n - 1) \cup
       {Append(t, l) : t \in {u \in TextsOf(n - 1) : Len(u) = n - 1},
                       l \in LinesOf(MaxItems)}

\* max_chars when the caller gives none
DefaultMaxChars == 1000

CleanWebContent ==
  /\ ~cw.done
  /\ cw' = [cw EXCEPT !.done = TRUE, !.out = _clean_web_content(cw.text, cw.max_chars)]
  /\ UNCHANGED << graphVars, sql, wx, mm, cx >>

\* _clean_web_content on every text, with the default max_chars and with
\* a cut inside the first sentence
InitClean ==
  /\ GraphInit /\ sql = NoSql /\ wx = NoWx /\ mm = NoMm /\ cx = NoCx
  /\ cw \in [text : TextsOf(MaxLines), max_chars : {DefaultMaxChars, 40}, done : {FALSE},
              out : {<<>>}]

SpecClean == InitClean /\ [][CleanWebContent]_vars

\* _get_daily_minmax on every series, offset and target date
InitMinMax ==
  /\ GraphInit /\ sql = NoSql /\ wx = NoWx /\ cx = NoCx /\ cw = NoCw
  /\ mm \in [series : SeriesOf(MaxSeries), tz : Offsets, target : TargetDates,
             done : {FALSE}, result : {NoMinMax}]

SpecMinMax == InitMinMax /\ [][DailyMinMax]_vars


----------------------------------------------------------------------------
(***************************************************************************)
(* What the properties below speak of.                                     *)
(***************************************************************************)
Handlers == {"conversation", "weather", "fallback_search", "executor"}

\* the Router has run in the current turn
PlannerRan == decision.by # "none"

\* the handler the conditional edge chooses from the flags
Route == route_after_planner(is_conversational, is_weather_query, need_web_fallback)

\* the handler that ran in the current turn, if one did
HandlerRan == IF Len(trace) >= 3 THEN trace[3] ELSE "none"

\* the handler of the current turn returned its messages
HandlerReturned == Len(trace) >= 3 /\ pc \in {"memory", "end"}

\* the content of the last message of the state
LastContent == messages[Len(messages)].content

----------------------------------------------------------------------------
(***************************************************************************)
(* The properties.                                                         *)
(***************************************************************************)

\* C1: every turn runs the entry node and the Router, then exactly one of
\* the four handlers, then the Memory Sink, and then ends: when /chat has
\* its result, the nodes that ran are user, planner, one handler, memory,
\* each once and in this order.
C1_FixedNodeOrder ==
  response.sent =>
    \E h \in Handlers : trace = << "user", "planner", h, "memory" >>

\* the nodes that ran so far are always a start of that order (a turn an
\* exception ends stops after its handler)
C1_OrderSoFar ==
  \E h \in Handlers :
    \E n \in 0..4 : trace = SubSeq(<< "user", "planner", h, "memory" >>, 1, n)

\* C2 as stated: the three checks, in order, on the latest user message: a
\* message that matches a pattern goes to conversation whatever else it
\* holds, one with a weather keyword and no pattern goes to weather, and the
\* model is invoked, once, only when neither matched.
C2_ChecksOnWholeMessage ==
  PlannerRan =>
    LET q == LastQuery(messages) IN
      /\ detect_conversation_type(q) # None => Route = "conversation"
      /\ (detect_conversation_type(q) = None /\ HasWeatherKeyword(q))
           => Route = "weather"
      /\ decision.called
           => detect_conversation_type(q) = None /\ ~HasWeatherKeyword(q)
      /\ Len(trace) = 2 => llm.invoked = (IF decision.called THEN 1 ELSE 0)

\* C2, amended: the same three checks, in the same order, on the first 500
\* characters of the trimmed message.
C2_ChecksOnFirst500 ==
  PlannerRan =>
    LET q == RouterQuery(messages) IN
      /\ detect_conversation_type(q) # None
           => Route = "conversation" /\ ~decision.called
      /\ (detect_conversation_type(q) = None /\ HasWeatherKeyword(q))
           => Route = "weather" /\ ~decision.called
      /\ decision.called
           => detect_conversation_type(q) = None /\ ~HasWeatherKeyword(q)
      /\ Len(trace) = 2 => llm.invoked = (IF decision.called THEN 1 ELSE 0)

\* a message with a pattern and a weather keyword went to conversation
C2_PatternBeatsKeyword ==
  /\ PlannerRan
  /\ detect_conversation_type(RouterQuery(messages)) # None
  /\ HasWeatherKeyword(RouterQuery(messages))
  /\ pc = "conversation"
  /\ ~decision.called

\* C3: in a turn the weather handler ran in, whatever the weather service
\* answered and whether or not a city was found, no model was constructed
\* and none was invoked.
C3_WeatherPathNoModel ==
  HandlerRan = "weather" => llm.built = 0 /\ llm.invoked = 0

\* the weather handler called the service and returned
C3_WeatherHandlerDone ==
  HandlerRan = "weather" /\ pc = "end" /\ deps.weather = 1

\* the first word of the statement, uppercased
SqlVerb(query) ==
  IF Strip(query) = <<>> THEN "" ELSE UpperWord(Head(Strip(query)))

ForbiddenVerbs == {"DROP", "DELETE", "UPDATE", "TRUNCATE"}

\* some forbidden token is in the uppercased text
HasForbiddenToken(query) ==
  \E k \in 1..Len(FORBIDDEN_KEYWORDS) : TextHasKeyword(query, FORBIDDEN_KEYWORDS[k])

\* C4: run_sql_impl executes a statement only when the guard allowed that
\* same query text; when the guard rejects, nothing is executed, nothing is
\* raised, and the string returned is the rejection with its reason.
C4_ExecuteOnlyAfterApproval ==
  sql # NoSql =>
    /\ sql.executed # <<>>
         => _validate_sql(sql.query).ok /\ sql.executed = << sql.query >>
    /\ ~_validate_sql(sql.query).ok
         => /\ sql.executed = <<>>
            /\ ~sql.raised
            /\ sql.result = <<"Query not allowed: ">> \o _validate_sql(sql.query).err

\* DROP TABLE x was rejected and answered with a string
C4_RejectedDrop ==
  /\ sql.query = << "DROP", "TABLE", "x" >>
  /\ sql.executed = <<>>
  /\ sql.result = << "Query not allowed: ",
                     "Query contains forbidden keyword or pattern: ", "DROP" >>

\* C5 as stated: allowed exactly when the text holds no forbidden token and
\* parses to a SELECT; a statement whose verb is DROP, DELETE, UPDATE or
\* TRUNCATE is rejected with a reason that names that operation; SELECT 1
\* is allowed.
C5_ReasonNamesTheVerb ==
  sql # NoSql =>
    /\ sql.verdict.ok
         <=> (~HasForbiddenToken(sql.query) /\ ParseRoot(Strip(sql.query)) = "Select")
    /\ SqlVerb(sql.query) \in ForbiddenVerbs
         => /\ ~sql.verdict.ok
            /\ HasPiece(sql.verdict.err, SqlVerb(sql.query))
    /\ sql.query = << "SELECT", "1" >> => sql.verdict.ok

\* C5, amended: the reason names a forbidden token of the text, the first
\* one in the order of FORBIDDEN_KEYWORDS, which is the statement's verb
\* only when no token listed before it occurs in the text.
C5_ReasonNamesFirstToken ==
  sql # NoSql =>
    /\ sql.verdict.ok
         <=> (~HasForbiddenToken(sql.query) /\ ParseRoot(Strip(sql.query)) = "Select")
    /\ SqlVerb(sql.query) \in ForbiddenVerbs
         => /\ ~sql.verdict.ok
            /\ \E k \in 1..Len(FORBIDDEN_KEYWORDS) :
                 /\ TextHasKeyword(sql.query, FORBIDDEN_KEYWORDS[k])
                 /\ \A j \in 1..(k - 1) : ~TextHasKeyword(sql.query, FORBIDDEN_KEYWORDS[j])
                 /\ sql.verdict.err = << "Query contains forbidden keyword or pattern: ",
                                         FORBIDDEN_KEYWORDS[k] >>
    /\ sql.query = << "SELECT", "1" >> => sql.verdict.ok

\* a DELETE on a table whose name holds UPDATE was rejected, naming UPDATE
C5_DeleteNamedUpdate ==
  /\ sql.query = << "DELETE", "FROM", "updated_at" >>
  /\ ~sql.verdict.ok
  /\ sql.verdict.err = << "Query contains forbidden keyword or pattern: ", "UPDATE" >>

\* C6: every turn ends normally, whatever the model and the services did:
\* no exception leaves the graph to /chat, and the chosen handler returned
\* its messages to the graph, which went on to the Memory Sink.
C6_NoExceptionEscapes ==
  response.sent =>
    /\ raised = ""
    /\ response.error = ""
    /\ HandlerRan \in Handlers
    /\ trace[Len(trace)] = "memory"

\* C7: between two turns of one conversation id, the history kept in the
\* conversation state holds at most the last 20 messages.
C7_HistoryWithinWindow ==
  pc = "idle" => Len(messages) <= MemoryWindow

\* the tag the handler detects on the latest user message
HandlerTag == detect_conversation_type(LastQuery(messages))

\* the conversation handler returned its reply
ConversationReplied == HandlerRan = "conversation" /\ HandlerReturned

\* the one-word queries, bare or with whitespace around them, that get
\* the tag t: every tag has one
QueriesOfTag(t) ==
  {q \in {<<w>> : w \in Words} \cup {<<WS, w, WS>> : w \in Words} :
     detect_conversation_type(q) = t}

C9_EmptyMessageNoModel ==
  (PlannerRan /\ LastQuery(messages) = <<>>) =>
    /\ Route = "fallback_search"
    /\ ~decision.called
    /\ Len(trace) = 2 => llm.invoked = 0

\* the replies of the model that choose the fallback
FallbackChoices == {"WEB_FALLBACK", "web_fallback", "Fallback."}

\* C10: when the Router asks the model, the turn goes to fallback-search
\* if the call failed or the reply chose the fallback, and to execute
\* otherwise; a failed call leaves the Router without an exception.
C10_ClassificationOutcome ==
  (PlannerRan /\ decision.by = "model") =>
    /\ Route = IF ~decision.ok \/ decision.text \in FallbackChoices
               THEN "fallback_search" ELSE "executor"
    /\ Len(trace) = 2 => pc = Route /\ raised = ""
    /\ ~decision.ok => raised = ""

\* the classification call failed and the fallback handler ran
C10_FailedCallFellBack ==
  /\ decision.by = "model"
  /\ ~decision.ok
  /\ decision.text = "rate_limit"
  /\ HandlerRan = "fallback_search"
  /\ pc = "end"

\* the fallback handler searched and returned in the current turn
SearchReturned ==
  HandlerRan = "fallback_search" /\ HandlerReturned /\ adapter.kind = "search"

\* the model calls of the turn that the Router did not make
HandlerInvocations == llm.invoked - (IF decision.called THEN 1 ELSE 0)

\* C11: when the search service returned a pre-synthesized answer, the
\* fallback handler's reply starts with that answer and the handler did
\* not invoke the model; when it returned none, the handler invoked the
\* model once.
C11_AnswerIsTheCandidate ==
  SearchReturned =>
    IF adapter.answered
    THEN HandlerInvocations = 0 /\ Head(LastContent) = TavilyAnswer
    ELSE HandlerInvocations = 1

\* where the Sources block starts in a reply
SourcesAt(content) == {i \in 1..Len(content) : content[i] = "Fontes:"}

\* C12: whenever the search returned at least one link, the reply of the
\* fallback handler holds exactly one Sources block, which lists the first
\* links, up to 3, whether the synthesis call returned or failed.
C12_SourcesWheneverLinks ==
  (SearchReturned /\ adapter.result.links # <<>>) =>
    /\ Cardinality(SourcesAt(LastContent)) = 1
    /\ \A i \in SourcesAt(LastContent) :
         SubSeq(LastContent, i + 1, Len(LastContent))
           = [k \in 1..Min(Len(adapter.result.links), MaxSources) |->
                "[" \o adapter.result.links[k]]

\* the synthesis call failed in the current turn
SynthesisFailed == SearchReturned /\ adapter.synthesis = "failed"

\* the sentences of a reply of the except branch: what stands between the
\* lead-in and the Sources block
ReplyBody(content) ==
  SubSeq(content, 2,
         IF SourcesAt(content) = {} THEN Len(content)
         ELSE (CHOOSE i \in SourcesAt(content) : TRUE) - 1)

\* the assistant messages of the current turn
TurnReplies == {i \in 1..Len(messages) : messages[i].role = "ai" /\ messages[i].turn = turn}

KeptSentences(summary) ==
  {i \in 1..Len(summary) :
     SentenceLen(summary[i]) > MinSentence /\ ~StartsWithChrome(summary[i])}

LookupReturned == wx.pc = "done" /\ ~wx.result.raised

\* the current-conditions fetch succeeded: _http_get returned the JSON of
\* a 200 response, and it was not empty
CurrentFetched == wx.returned.current = "json" /\ wx.current.ok

\* C14: a WeatherResult the weather lookup returns carries raw_data if and
\* only if the current-conditions fetch succeeded: none without an API key,
\* none for a city that is empty once sanitized, none when the fetch
\* returned nothing, and the current conditions in every other case,
\* whatever the forecast fetch gave.
C14_RawDataIffCurrent ==
  LookupReturned =>
    /\ wx.result.has <=> CurrentFetched
    /\ ~wx.key => ~wx.result.has
    /\ (\A i \in 1..Len(wx.city) : wx.city[i] \in {Punct, WS}) => ~wx.result.has
    /\ wx.result.has =>
         /\ wx.result.raw_data.temp = wx.current.temp
         /\ wx.result.raw_data.feels_like = wx.current.feels_like

\* the current conditions came, the forecast fetch gave nothing after
\* three requests, and the result carries raw_data
C14_RawDataWithoutForecast ==
  /\ LookupReturned
  /\ wx.result.has
  /\ wx.returned.forecast = "None"
  /\ Len(wx.requests) = 4

\* the weather handler looked the weather up in the current turn
WeatherLookedUp == HandlerRan = "weather" /\ adapter.kind = "weather"

\* the min/max segment of a weather reply
HasMinMax(content) == \E i \in 1..Len(content) : content[i] = " (mín "

\* C15: when the current-conditions fetch succeeds and the forecast fetch
\* fails, the lookup returns the current conditions with a daily min and
\* max of None, and the weather handler returns a reply without the
\* min/max segment; and the forecast is requested only after the
\* current conditions were fetched.
C15_ForecastFailureTolerated ==
  WeatherLookedUp =>
    /\ adapter.forecast = "failed" =>
         /\ pc # "raised"
         /\ adapter.result.has
         /\ adapter.result.raw_data.daily = [temp_min |-> Null, temp_max |-> Null]
         /\ HandlerReturned =>
              /\ ~HasMinMax(LastContent)
              /\ SubSeq(LastContent, 1, 2) = <<"Em ", "Paris">>
    /\ adapter.forecast # "not fetched" =>
         /\ adapter.result.requests = <<"current", "forecast">>
         /\ adapter.result.has \/ adapter.result.raised

\* the forecast fetch failed and the reply gives the current conditions
C15_ReplyWithoutMinMax ==
  /\ WeatherLookedUp
  /\ adapter.forecast = "failed"
  /\ pc = "end"
  /\ LastContent = <<"Em ", "Paris", ": ", "Chuva", ", ", "18", "°C",
                     ". Sensação térmica: ", "17", "°C", ". Umidade: ", "70", "%",
                     ". Vento: ", "3.5", " m/s", ".">>

\* C16: when no city is found in the latest user message, the weather
\* handler returns the fixed "could not identify the city" reply as its one
\* assistant message and does not call the weather adapter.
C16_NoCityNoLookup ==
  (HandlerRan = "weather" /\ _extract_city(LastQuery(messages)).city = <<>>) =>
    /\ pc # "raised"
    /\ deps.weather = 0
    /\ adapter = NoAdapter
    /\ Cardinality(TurnReplies) = 1
    /\ LastContent = NoCityReply

\* a message with a weather keyword and no city got the fixed reply
C16_FixedReplySent ==
  /\ HandlerRan = "weather"
  /\ LastQuery(messages) = <<"console">>
  /\ LastContent = NoCityReply
  /\ deps.weather = 0
  /\ pc = "end"

\* the segments of a weather reply
HasSegment(content, lead) == \E i \in 1..Len(content) : content[i] = lead

\* C17: the reply of the weather handler has a segment for a field if and
\* only if the adapter response carries a value for it: description,
\* current temperature, min/max (both), feels-like, humidity, wind speed.
C17_SegmentIffValue ==
  (WeatherLookedUp /\ HandlerReturned /\ adapter.result.has) =>
    LET raw == adapter.result.raw_data IN
      /\ HasSegment(LastContent, "Chuva") <=> raw.desc # None
      /\ HasSegment(LastContent, "°C") <=> raw.temp # None
      /\ HasMinMax(LastContent)
           <=> (raw.daily.temp_min.k = "num" /\ raw.daily.temp_max.k = "num")
      /\ HasSegment(LastContent, ". Sensação térmica: ") <=> raw.feels_like # None
      /\ HasSegment(LastContent, ". Umidade: ") <=> raw.humidity # None
      /\ HasSegment(LastContent, ". Vento: ") <=> raw.wind # None

\* the entries of the series that carry readings on the target date: a
\* numeric timestamp whose local date is the target, a temperature block
OnTargetDate ==
  {i \in 1..Len(mm.series) :
     /\ mm.series[i].dt.k = "num"
     /\ (mm.series[i].dt.v + mm.tz) \div 86400 = mm.target
     /\ mm.series[i].main = "present"}

\* the min or max reading of an entry: the explicit one, the point
\* temperature when it is not given
ReadingOf(i, key) ==
  IF mm.series[i][key].k = "absent" THEN mm.series[i].temp ELSE mm.series[i][key]

\* the readings of the target date
ReadingsOnDate ==
  {ReadingOf(p[1], p[2]).v :
     p \in {q \in OnTargetDate \X {"temp_min", "temp_max"} :
              ReadingOf(q[1], q[2]).k = "num"}}

\* a number of hundredths to the nearest tenth
NearestTenth(x) == CHOOSE t \in -100..400 : 10 * t - 5 <= x /\ x < 10 * t + 5

\* the min and max the series has on the target date
ExpectedMinMax ==
  IF ReadingsOnDate = {}
  THEN [temp_min |-> Null, temp_max |-> Null]
  ELSE [temp_min |-> Num(NearestTenth(
                       CHOOSE x \in ReadingsOnDate : \A y \in ReadingsOnDate : x <= y)),
        temp_max |-> Num(NearestTenth(
                       CHOOSE x \in ReadingsOnDate : \A y \in ReadingsOnDate : x >= y))]

\* C18: _get_daily_minmax returns the min and the max, rounded to one
\* decimal, over the readings of exactly the entries whose local date
\* (timestamp plus timezone offset) is the target date, with the point
\* temperature standing in for a missing min or max; both are None for an
\* empty series and when no entry falls on the target date.
C18_MinMaxOfTheDate ==
  (mm.done /\ ~mm.result.raised) =>
    /\ mm.result.temp_min = ExpectedMinMax.temp_min
    /\ mm.result.temp_max = ExpectedMinMax.temp_max
    /\ (mm.series = <<>> \/ OnTargetDate = {}) =>
         mm.result.temp_min = Null /\ mm.result.temp_max = Null

\* two entries of the date, west of Greenwich: the entry of 01:00 UTC of
\* the next day counts, with its min, the point temperature of the other
\* gives the max
C18_AcrossMidnight ==
  /\ mm.done
  /\ mm.tz = 0 - 10800
  /\ mm.target = 1
  /\ Len(mm.series) = 2
  /\ mm.series[1].dt = Num(2 * 86400 + 3600)
  /\ mm.series[2].temp_min = Absent
  /\ mm.result = [raised |-> FALSE, temp_min |-> Num(-31), temp_max |-> Num(305)]

\* the well-formed entries of a series: a numeric timestamp, a temperature
\* block, numeric readings
WellFormed(entry) ==
  /\ entry.dt.k = "num"
  /\ entry.main = "present"
  /\ \A key \in {"temp_min", "temp_max", "temp"} : entry[key].k \in {"num", "absent"}

\* C19: _get_daily_minmax never raises: on a series that mixes well-formed
\* and malformed entries it skips the malformed ones and returns the
\* min/max of the well-formed entries of the target date.
C19_MalformedSkipped ==
  mm.done =>
    /\ ~mm.result.raised
    /\ (\A i \in OnTargetDate : WellFormed(mm.series[i])) =>
         /\ mm.result.temp_min = ExpectedMinMax.temp_min
         /\ mm.result.temp_max = ExpectedMinMax.temp_max

\* the requests of one call of _http_get
RequestsTo(url) == SelectSeq(wx.requests, LAMBDA q : q.url = url)

\* the call of _http_get for a URL is over
CallOver(url) == wx.returned[url] # "not called"

\* the requests of every call so far: at most 3; a request is followed by
\* another only if it ended in 429, a timeout or a network error; a call
\* returns the JSON exactly when its last request ended in 200, and None
\* after any other status or after 3 retryable failures
C20_Requests ==
  \A url \in {"current", "forecast"} :
    LET reqs == RequestsTo(url) IN
      /\ Len(reqs) <= 3
      /\ \A i \in 1..(Len(reqs) - 1) : reqs[i].status \in {"429", "timeout", "network"}
      /\ wx.pc = url => \A i \in 1..Len(reqs) : reqs[i].status \in {"429", "timeout", "network"}
      /\ CallOver(url) =>
           /\ reqs # <<>>
           /\ wx.returned[url] = "json" <=> reqs[Len(reqs)].status = "200"
           /\ wx.returned[url] = "None" <=>
                \/ reqs[Len(reqs)].status \in {"404", "500"}
                \/ Len(reqs) = 3 /\ reqs[3].status \in {"429", "timeout", "network"}

\* C20: a call of _http_get makes at most 3 requests and ends; it makes a
\* further request only after a 429, a timeout or a network error; another
\* status than 200 ends it with None at once; the first 200 ends it with
\* the JSON; 3 retryable failures end it with None.
C20_BoundedRetry ==
  /\ []C20_Requests
  /\ (wx.pc = "current") ~> (wx.pc # "current")
  /\ (wx.pc = "forecast") ~> (wx.pc = "done")

\* three retryable failures in a row, and the call returned None
C20_ThreeFailures ==
  /\ wx.returned.current = "None"
  /\ wx.requests = << [url |-> "current", status |-> "429"],
                      [url |-> "current", status |-> "timeout"],
                      [url |-> "current", status |-> "network"] >>
  /\ wx.pc = "done"

----------------------------------------------------------------------------
\* the waits of the call of _http_get on a url, in order
SleepsOf(url) == SelectSeq(wx.sleeps, LAMBDA s : s.url = url)

\* C21: within one call of _http_get, across consecutive retryable
\* failures, every wait is a constant multiple, at least the double, of the
\* wait before it.
C21_ExponentialBackoff ==
  \A url \in {"current", "forecast"} :
    LET waits == SleepsOf(url) IN
      /\ \A i \in 1..(Len(waits) - 1) : waits[i + 1].sec >= 2 * waits[i].sec
      /\ \A i \in 2..(Len(waits) - 1) :
           waits[i + 1].sec * waits[i - 1].sec = waits[i].sec * waits[i].sec

\* C23: the search adapter's result has its answer set exactly when the
\* service returned a pre-synthesized answer; the summary is then that
\* answer and the links are the URLs of the results, at most 5, in order;
\* with no answer from the service the answer of the result is None.
C23_AnswerSetIffReturned ==
  SearchReturned =>
    /\ adapter.result.answer # None <=> adapter.answered
    /\ adapter.answered =>
         /\ adapter.result.answer = TavilyAnswer
         /\ adapter.result.summary = <<TavilyAnswer>>
         /\ adapter.result.links = SubSeq(Urls, 1, Min(adapter.n, MaxLinks))

\* the tool returned a text made of a lookup's data
ToolAnswered == wx.pc = "done" /\ wx.result.has /\ ~wx.result.raised

\* C30: for the same lookup result, a feels-like, humidity or wind-speed
\* segment is in the text of the weather_api tool if and only if it is in
\* the reply that weather_node composes, for every value, zero included.
C30_SameSegments ==
  ToolAnswered =>
    \A lead \in {". Sensação térmica: ", ". Umidade: ", ". Vento: "} :
      HasSegment(wx.text, lead)
        <=> HasSegment(WeatherReply(wx.result.raw_data), lead)

\* the fixed apology of /chat for an exceeded quota
Apology == <<"Desculpe, a quota da API OpenAI foi excedida.">>

\* where a rate limit was met in the turn: the Router's classification
\* call, the tool-execution loop, the search service, the synthesis call
RouterRateLimited == decision.called /\ ~decision.ok /\ decision.text = "rate_limit"
LoopRateLimited == raised = "rate_limit"
SearchRateLimited ==
  /\ adapter.kind = "search"
  /\ adapter.result.summary[1] = "Limite de requisições atingido."
SynthesisRateLimited == adapter.kind = "search" /\ adapter.synthesis = "failed"

RateLimited ==
  RouterRateLimited \/ LoopRateLimited \/ SearchRateLimited \/ SynthesisRateLimited

\* C25 as stated: a rate limit met in whichever node of the turn is not
\* returned as an error and the turn's reply is the fixed apology.
C25_ApologyWhereverItOccurs ==
  (response.sent /\ RateLimited) =>
    response.error # "internal_error" /\ response.content = Apology

\* C25: a rate limit met in a turn is never returned as an internal error
\* and the turn has a non-empty reply of its own; the reply is the fixed
\* apology, tagged rate_limit_exceeded, exactly when the rate limit left
\* the graph, which only the tool-execution loop lets it do; a rate limit
\* of the Router's call sends the turn to the fallback search, and one of
\* the search service or of the synthesis call is answered by the fallback
\* handler's own reply.
C25_RateLimitRecovered ==
  (response.sent /\ RateLimited) =>
    /\ response.error # "internal_error"
    /\ Truthy(response.content)
    /\ response.turn = turn
    /\ response.content = Apology <=> LoopRateLimited
    /\ response.error = "rate_limit_exceeded" <=> LoopRateLimited
    /\ LoopRateLimited => HandlerRan = "executor"
    /\ RouterRateLimited => HandlerRan = "fallback_search" /\ response.error = ""
    /\ (SearchRateLimited \/ SynthesisRateLimited) =>
         /\ response.error = ""
         /\ response.content = LastContent

\* the tool-execution loop met a rate limit and the apology was returned
C25_ApologyReturned ==
  /\ response.sent
  /\ LoopRateLimited
  /\ response.content = Apology
  /\ response.error = "rate_limit_exceeded"

\* C28: whenever the Router sent the turn to the conversational handler,
\* the handler's detection on the whole trimmed message gives the tag the
\* Router's detection gave on the message cut to 500 characters, a tag
\* that is not None, and the handler does not raise.
C28_HandlerSeesRoutersTag ==
  HandlerRan = "conversation" =>
    /\ detect_conversation_type(LastQuery(messages)) # None
    /\ detect_conversation_type(LastQuery(messages))
         = detect_conversation_type(RouterQuery(messages))
    /\ raised = ""

\* messages as a node returns them, before the merge gives them ids
NoId(msgs) == [i \in 1..Len(msgs) |-> [msgs[i] EXCEPT !.id = 0]]

\* the tool-execution handler of the current turn returned
AgentReturned == HandlerRan = "executor" /\ adapter.kind = "agent"

\* C24: the tool-execution handler returns the messages its loop produced
\* beyond the input, and only these, so that the state is its history
\* followed by them; when the loop produced none it returns the last
\* assistant message of the history, which leaves the history as it was,
\* or an empty list when the history has no assistant message.
C24_OnlyNewMessages ==
  AgentReturned =>
    IF adapter.run # <<>>
    THEN /\ adapter.returned = adapter.run
         /\ \A i \in 1..Len(adapter.returned) : adapter.returned[i].turn = turn
         /\ NoId(messages) = NoId(adapter.before) \o adapter.run
    ELSE /\ adapter.returned = LastAI(adapter.before)
         /\ messages = adapter.before

\* in a later turn the loop produced nothing, and the handler returned the
\* assistant message of an earlier turn
C24_NothingNew ==
  /\ AgentReturned
  /\ adapter.run = <<>>
  /\ adapter.returned # <<>>
  /\ adapter.returned[1].turn < turn

\* the flags the Router's decision of the current turn stands for
FlagsOf(d) ==
  CASE d.by = "empty" -> << PyBool(TRUE), PyBool(FALSE), PyBool(FALSE) >>
    [] d.by = "pattern" -> << PyBool(FALSE), PyBool(TRUE), PyBool(FALSE) >>
    [] d.by = "keyword" -> << PyBool(FALSE), PyBool(FALSE), PyBool(TRUE) >>
    [] OTHER -> << PyBool(classification(d.ok, d.text)), PyBool(FALSE), PyBool(FALSE) >>

FlagsOfThisTurn ==
  PlannerRan =>
    /\ Cardinality({i \in 1..3 : IsTrue(flags[i])}) <= 1
    /\ flags = FlagsOf(decision)
    /\ HandlerRan # "none" => HandlerRan = Route

\* C27: on every turn of a conversation id, once the Router has run, at
\* most one of the three flags is true, each flag has the value the
\* Router's decision of this turn gives it, and the handler that runs is
\* the one these flags select; the Router's step changes the flags and
\* neither the messages nor the context.
C27_FlagsAreThisTurns ==
  /\ []FlagsOfThisTurn
  /\ [][pc = "planner" => UNCHANGED << messages, context >>]_vars

\* the second turn went to the weather handler after a first turn that
\* went to the conversational one, whose flag the checkpoint held
C27_RouteChanged ==
  /\ turn = 2
  /\ decision.by = "keyword"
  /\ messages[1].content = <<"Oi">>
  /\ is_conversational = PyBool(FALSE)
  /\ HandlerRan = "weather"

\* C29: on every turn of a conversation id, the reply /chat returns is an
\* assistant message of that same turn; the assistant message of an
\* earlier turn is never returned for a later user message.
C29_ReplyIsThisTurns ==
  (response.sent /\ response.error = "") => response.turn \notin 1..(turn - 1)

\* the preposition tokens the extractor is said to look for
ClaimedPrepositions == {"in", "at", "for", "de", "em", "para"}

\* C26: the city extractor first looks for one of the prepositions in, at,
\* for, de, em, para followed by a capitalized word, takes the words from
\* there with an optional /Country or , Country suffix and splits the city
\* from the country; with no such preposition it joins the capitalized
\* words that are no stop words, with country None; with no candidate it
\* returns (None, None).
C26_TwoTiers ==
  cx.done => cx.result = ExtractWith(ClaimedPrepositions, cx.query)

\* how often an item stands in a text, and in an output
RECURSIVE CountIn(_, _)
CountIn(w, text) ==
  IF text = <<>> THEN 0
  ELSE Len(SelectSeq(Head(text), LAMBDA x : x = w)) + CountIn(w, Tail(text))

CountOut(w, out) == Len(SelectSeq(out, LAMBDA o : o.w = w))

\* C22: for every text and max_chars, no raw URL of the input is in the
\* sanitizer's output, and a sentence that stands twice in the input
\* stands at most once in the output.
C22_NoUrlNoDuplicate ==
  cw.done =>
    /\ \A i \in 1..Len(cw.out) : cw.out[i].w \notin {Url, UrlUpper}
    /\ \A w \in {S1, P1} : CountIn(w, cw.text) >= 2 => CountOut(w, cw.out) <= 1

====
